---- MODULE Spec2Model ----
(***************************************************************************)
(* Model of ws_conan_scanner (conan_scanner.py, utils.py): the main        *)
(* pipeline that maps a Conan project's dependencies, recovers missing     *)
(* sources, reconciles download URLs with the canonical index, dispatches  *)
(* the scan and polls its upload status (specification Spec), and the     *)
(* reattribution of the scanned source files that follows it               *)
(* (specification SpecReattr, which starts where the pipeline enters it).  *)
(* SpecDispatch is the scan stage entered with WS_EXCLUDES set or not, and *)
(* SpecExtract a call of extract_url_from_conan_data_yml on platform-keyed *)
(* url maps, SpecVersions the same call on manifests of several versions.  *)
(*                                                                         *)
(* Python exceptions are modelled as results: an operator that stands for  *)
(* a call returns a record whose field "raised" names the exception that   *)
(* leaves the call ("" when it returns normally).  A process that ends     *)
(* through sys.exit(n) has exit_status "exit_n"; one that ends through an  *)
(* exception nobody catches has exit_status "uncaught" (the interpreter    *)
(* prints the traceback and exits with status 1).                          *)
(***************************************************************************)
EXTENDS Integers, Sequences, FiniteSets, TLC

\* ------------------------------------------------------------------ bounds
MaxDeps == 2        \* dependencies listed by `conan info`
MaxPolls == 3       \* polls of the scan status explored

\* ------------------------------------------------------- program constants
POLL_INTERVAL == 20 \* time.sleep(20.0)

\* --------------------------------------------------------- python values
\* A value read from a manifest (conandata.yml) or stored on a dependency:
\* None, a string, a dict (a sequence of key/value pairs) or a list.
None == [t |-> "none", s |-> "", d |-> <<>>, l |-> <<>>]
Str(s) == [t |-> "str", s |-> s, d |-> <<>>, l |-> <<>>]
Dict(pairs) == [t |-> "dict", s |-> "", d |-> pairs, l |-> <<>>]
List(xs) == [t |-> "list", s |-> "", d |-> <<>>, l |-> xs]
Unset == [t |-> "unset", s |-> "", d |-> <<>>, l |-> <<>>]

\* bool(v) of Python.
Truthy(v) ==
    CASE v.t = "str" -> v.s # ""
      [] v.t = "dict" -> Len(v.d) > 0
      [] v.t = "list" -> Len(v.l) > 0
      [] OTHER -> FALSE

\* dict.get(k): the value under k, None when k is no key.
DictGet(u, k) ==
    IF \E i \in 1..Len(u.d) : u.d[i].k = k
    THEN u.d[CHOOSE i \in 1..Len(u.d) : u.d[i].k = k].v
    ELSE None

\* `needle in hay` on strings, both given as token sequences.
Contains(needle, hay) ==
    \E i \in 0..(Len(hay) - Len(needle)) :
        \A j \in 1..Len(needle) : hay[i + j] = needle[j]

\* str.replace(old, new) on a token sequence.
Replace(seq, old, new) == [i \in 1..Len(seq) |-> IF seq[i] = old THEN new ELSE seq[i]]

\* ----------------------------------------------------------- the project
\* The references `conan info` can list, as token sequences name / version.
AllRefs == << <<"zlib", "/", "1.2.11">>, <<"bzip2", "/", "1.0.8">>, <<"boost", "/", "1.70.0">> >>

project_path == <<"/", "proj">>
\* config.temp_dir: conanInstallFolder (by default the project path) / temp folder
temp_dir == project_path \o <<"/", "conan_scanner_pre_process_now">>
\* conan cache folders of a reference, as `conan info --paths` reports them
source_folder(ref) == <<"/", "conan", "/", ref[1], "/", ref[3], "/", "source">>
export_folder(ref) == <<"/", "conan", "/", ref[1], "/", ref[3], "/", "export">>

\* A dependency record as it is loaded from deps.json.  A key the dict does
\* not hold yet is "unset", -1, or the empty token sequence.
NewDependency(ref) ==
    [reference |-> ref,
     source_folder |-> source_folder(ref),
     export_folder |-> export_folder(ref),
     conandata_yml |-> "unset",
     conandata_yml_download_url |-> Unset,
     key_uuid |-> "unset",
     counter |-> -1,
     package_full_name |-> <<>>,
     name |-> <<>>,
     version |-> <<>>]

\* ------------------------------------------------------- execute_command
\* execute_command without its except clause: the failure of the command
\* leaves as CalledProcessError.
execute_command_reraising(exit_code) ==
    [raised |-> IF exit_code = 0 THEN "" ELSE "CalledProcessError",
     output |-> IF exit_code = 0 THEN "output" ELSE "None"]

\* utils.execute_command: the output of a command that exits 0; a failing
\* command is logged and None is returned, CalledProcessError never leaves.
execute_command(exit_code) ==
    [raised |-> "",
     output |-> IF exit_code = 0 THEN "output" ELSE "None"]

\* CalledProcessError leaves one of the two commands of the try block
\* (conan install, then conan source): the except clause is entered.
CalledProcessErrorRaised(r1, r2) ==
    r1.raised = "CalledProcessError" \/ r2.raised = "CalledProcessError"

\* ------------------------------------------- extract_url_from_conan_data_yml
Absent == [t |-> "absent", s |-> "", d |-> <<>>, l |-> <<>>]
Returns(v) == [raised |-> "", value |-> v]
Raises(e) == [raised |-> e, value |-> None]

\* lines 595-596: a platform-keyed map is resolved with the profile's os_build
ResolveOsBuild(url, profile) ==
    IF url.t = "dict" /\ Truthy(DictGet(url, profile.os_build))
    THEN DictGet(url, profile.os_build) ELSE url

\* lines 597-598: then with the profile's arch_build
ResolveArchBuild(url, profile) ==
    IF url.t = "dict" /\ Truthy(DictGet(url, profile.arch_build))
    THEN DictGet(url, profile.arch_build) ELSE url

\* lines 599-601: of a list the last element is returned
ResolveList(url) ==
    IF url.t = "list"
    THEN IF Len(url.l) = 0 THEN Raises("IndexError") ELSE Returns(url.l[Len(url.l)])
    ELSE Returns(url)

\* The resolution with the architecture asked before the os.
FirstSourceArchFirst(value, profile) ==
    IF value.t # "dict" THEN Raises("AttributeError")
    ELSE ResolveList(ResolveOsBuild(ResolveArchBuild(DictGet(value, "url"), profile), profile))

\* lines 593-601: the loop over sources returns in its first iteration
FirstSource(value, profile) ==
    IF value.t # "dict" THEN Raises("AttributeError")
    ELSE ResolveList(ResolveArchBuild(ResolveOsBuild(DictGet(value, "url"), profile), profile))

\* The loop returning the url of the last entry of sources.
LastSourceUrl(temp, profile) ==
    IF temp.t # "dict" THEN Raises("AttributeError")
    ELSE IF Len(temp.d) = 0 THEN Returns(None)
    ELSE FirstSource(temp.d[Len(temp.d)].v, profile)

SourcesUrl(temp, profile) ==
    IF temp.t # "dict" THEN Raises("AttributeError")
    ELSE IF Len(temp.d) = 0 THEN Returns(None)
    ELSE FirstSource(temp.d[1].v, profile)

\* The url of the first entry of the manifest's sources, resolved with the
\* profile's os_build, then its arch_build, then the last element of a list.
\* A manifest that cannot be opened is logged and None is returned.
extract_url_from_conan_data_yml(source, profile) ==
    IF source.t = "absent" THEN Returns(None)
    ELSE IF source.t # "dict" THEN Raises("AttributeError")
    ELSE SourcesUrl(DictGet(source, "sources"), profile)

\* A manifest document {sources: {version: {url: u}}}.
Manifest(version, u) ==
    Dict(<< [k |-> "sources",
             v |-> Dict(<< [k |-> version, v |-> Dict(<< [k |-> "url", v |-> u] >>)] >>)] >>)

\* ---------------------------------------------------- download_source_package
NoneDir == <<"None">>

\* lines 215-234, given the result of extract_url_from_conan_data_yml
Download(r, directory, net) ==
    IF r.raised # "" THEN [raised |-> r.raised, value |-> NoneDir]
    ELSE IF ~Truthy(r.value) THEN [raised |-> "", value |-> NoneDir]
    ELSE IF net = "ok" THEN [raised |-> "", value |-> directory]
    ELSE IF net = "ProtocolError" THEN [raised |-> "", value |-> NoneDir]
    ELSE [raised |-> "AttributeError", value |-> NoneDir]

\* The archive named by the manifest is fetched and saved under `directory`,
\* which is returned; with no url in the manifest nothing is fetched and None
\* is returned.  A ProtocolError is logged; the other handlers read
\* e.response.text of an exception that carries no response.
download_source_package(source, directory, profile, net) ==
    Download(extract_url_from_conan_data_yml(source, profile), directory, net)

NetOutcomes == {"ok", "ProtocolError", "ConnectionError", "PermissionError"}

\* ------------------------------------ get_dependencies_from_download_source
\* package_directory: temp_dir/temp_deps/<name>-<version>
package_directory(item) == temp_dir \o <<"/", "temp_deps", "/", item[1], "-", item[3]>>

\* What the recovery of one missing reference finds on disk and gets from the
\* commands it runs and from the network.
RecoveryEnvs ==
    [recipe : BOOLEAN, install_exit : {0, 1}, source_exit : {0, 1},
     wd_manifest : BOOLEAN, exp_manifest : BOOLEAN,
     source_again_exit : {0, 1}, net : NetOutcomes]

\* The manifest a recovery download reads.
RecoveryManifest(item) == Manifest(item[3], Str("U_raw"))

\* The first step's entry of the list of attempted steps.
Step1(env) == [step |-> 1, ok |-> env.install_exit = 0 /\ env.source_exit = 0]

\* lines 174-179, 185-190, 196-200: the result of a download is appended to
\* packages_l and the manifest path is stored.
Downloaded(step, path, dl, pd, env) ==
    [steps |-> <<Step1(env), [step |-> step, ok |-> dl.raised = "" /\ dl.value = pd]>>,
     appended |-> IF dl.raised = "" THEN <<dl.value>> ELSE <<>>,
     conandata_yml |-> IF dl.raised = "" THEN path ELSE "unset",
     raised |-> dl.raised]

\* lines 192-202: the source command runs again, then the download is given
\* the package directory as its source: open() raises IsADirectoryError,
\* which extract_url_from_conan_data_yml catches.
SourceAgain(r3, item, pd, env, profile) ==
    IF r3.raised # ""
    THEN [steps |-> <<Step1(env), [step |-> 4, ok |-> FALSE]>>,
          appended |-> <<>>, conandata_yml |-> "unset", raised |-> ""]
    ELSE Downloaded(4, "workdir", download_source_package(Absent, pd, profile, env.net), pd, env)

\* lines 167-205: the except clause.
Fallback(item, pd, env, profile) ==
    IF env.wd_manifest
    THEN Downloaded(2, "workdir",
                    download_source_package(RecoveryManifest(item), pd, profile, env.net), pd, env)
    ELSE IF env.exp_manifest
    THEN Downloaded(3, "export",
                    download_source_package(RecoveryManifest(item), pd, profile, env.net), pd, env)
    ELSE IF env.recipe
    THEN SourceAgain(execute_command(env.source_again_exit), item, pd, env, profile)
    ELSE [steps |-> <<Step1(env), [step |-> 5, ok |-> FALSE]>>,
          appended |-> <<>>, conandata_yml |-> "unset", raised |-> ""]

\* lines 155-165: the try block.
TryInstallAndSource(r1, r2, item, pd, env, profile) ==
    IF ~CalledProcessErrorRaised(r1, r2)
    THEN [steps |-> <<Step1(env)>>,
          appended |-> <<pd>>,
          conandata_yml |-> IF env.wd_manifest THEN "workdir"
                            ELSE IF env.exp_manifest THEN "export" ELSE "unset",
          raised |-> ""]
    ELSE Fallback(item, pd, env, profile)

\* One iteration of the loop over source_folders_missing.  steps is the list
\* of the recovery steps attempted, each with whether its commands succeeded;
\* appended is what the iteration appends to packages_l; conandata_yml is the
\* manifest path stored on the dependency ("unset": none stored).
RecoverItem(item, env, profile) ==
    IF ~env.recipe
    THEN [steps |-> <<>>, appended |-> <<>>, conandata_yml |-> "unset", raised |-> ""]
    ELSE TryInstallAndSource(execute_command(env.install_exit), execute_command(env.source_exit),
                             item, package_directory(item), env, profile)

\* ------------------------------------------------------------------ state
VARIABLES
    pc,                     \* the statement of main() that runs next
    exit_status,            \* "running", "exit_0", "exit_1" or "uncaught"
    config,                 \* the options the run reads
    conan_profile,          \* module-level conan_profile
    conan_info_exit,        \* exit code of the dependency-listing command (-1: not run)
    conan_dependencies,     \* the dependency records, in deps.json order
    on_disk,                \* per dependency: its cache source folder existed
    source_folders_missing, \* references whose cache source folder is missing
    item_idx,               \* position of the loop that runs
    packages_l,             \* local list of get_dependencies_from_download_source
    recovery_log,           \* per missing reference: the steps attempted and the disk facts
    recovered,              \* working directories of the references whose recovery succeeded
    dirs_to_scan,           \* main's list of scan targets
    sync_log,               \* per dependency: what the index reconciliation did
    scan_dirs,              \* the directory list handed to unified_agent.scan
    status_log,             \* the statuses the poll loop has read
    slept,                  \* seconds spent in time.sleep by the poll loop
    source_files,           \* project_source_files_inventory, as the reattribution annotates it
    project_inventory,      \* the project's libraries, joined with their download links
    libraries_key_uuid_and_sf_sha1,  \* phase 1: the hashes queued under each key_uuid
    second_phase,           \* project_sf_inventory_to_remap_second_phase (positions in source_files)
    third_phase,            \* project_source_files_inventory_to_remap_third_phase (positions)
    remaining,              \* remaining_conan_local_packages_and_source_files_sha1
    calls,                  \* the change_origin_of_source_lib calls issued
    no_match_log,           \* phase 3: per package handled, whether "no match" was reported
    captured_records,       \* the log records of is_conan_installed, in order
    environ,                \* os.environ['WS_EXCLUDES']
    parsed_yaml_file,       \* extract_url_from_conan_data_yml: the manifest it loaded
    extracted_url           \* extract_url_from_conan_data_yml: what it returned

vars == <<pc, exit_status, config, conan_profile, conan_info_exit, conan_dependencies, on_disk,
          source_folders_missing, item_idx, packages_l, recovery_log, recovered,
          dirs_to_scan, sync_log, scan_dirs, status_log, slept,
          source_files, project_inventory, libraries_key_uuid_and_sf_sha1, second_phase,
          third_phase, remaining, calls, no_match_log,
          captured_records, environ, parsed_yaml_file, extracted_url>>

\* A call of extract_url_from_conan_data_yml taken by itself.
extract_vars == <<parsed_yaml_file, extracted_url>>

\* The state of the reattribution, which the pipeline before it leaves alone.
reattr_vars == <<source_files, project_inventory, libraries_key_uuid_and_sf_sha1,
                 second_phase, third_phase, remaining, calls, no_match_log>>

\* The state of the pipeline that the reattribution leaves alone.
pipeline_vars == <<config, conan_profile, conan_info_exit, on_disk, source_folders_missing,
                   packages_l, recovery_log, recovered, dirs_to_scan, sync_log, scan_dirs,
                   status_log, slept, captured_records, environ>>

\* os.environ.get('WS_EXCLUDES') is None.  A value that is set is held as the
\* patterns its commas separate; '' is the one empty pattern.
NotSet == [set |-> FALSE, patterns |-> <<>>]

NotScanned == << <<"not scanned">> >>
NoProfile == [os_build |-> "unset", arch_build |-> "unset"]

Init ==
    /\ pc = "is_conan_installed"
    /\ exit_status = "running"
    /\ config \in [change_origin_library : BOOLEAN]
    /\ conan_profile = NoProfile
    /\ conan_info_exit = -1
    /\ conan_dependencies = <<>>
    /\ on_disk = <<>>
    /\ source_folders_missing = <<>>
    /\ item_idx = 0
    /\ packages_l = <<>>
    /\ recovery_log = <<>>
    /\ recovered = {}
    /\ dirs_to_scan = <<>>
    /\ sync_log = <<>>
    /\ scan_dirs = NotScanned
    /\ status_log = <<>>
    /\ slept = 0
    /\ source_files = <<>>
    /\ project_inventory = <<>>
    /\ libraries_key_uuid_and_sf_sha1 = <<>>
    /\ second_phase = <<>>
    /\ third_phase = <<>>
    /\ remaining = <<>>
    /\ calls = <<>>
    /\ no_match_log = <<>>
    /\ captured_records = <<>>
    /\ environ = NotSet
    /\ parsed_yaml_file = Unset
    /\ extracted_url = Unset

\* The process ends: sys.exit(1), or an exception that nothing catches.
Exit(status) ==
    /\ pc' = "exited"
    /\ exit_status' = status

\* ------------------------------------------------------ is_conan_installed
\* What `conan --version` prints: its version line, something else, or the
\* shell's complaint when there is no conan.
CommandOutput(exit_code, has_version) ==
    IF exit_code # 0 THEN <<"/bin/sh: conan: not found">>
    ELSE IF has_version THEN <<"Conan version", " 1.59.0">>
    ELSE <<"conan", " 1.59.0">>

Record(levelname, msg) == [levelname |-> levelname, msg |-> msg]

\* The records utils.execute_command logs (utils.py 84-89): the command, then
\* its output, as an error when the command failed.
ExecuteCommandRecords(exit_code, output) ==
    << Record("INFO", <<"Going to run the following command :", "conan --version">>),
       Record(IF exit_code = 0 THEN "INFO" ELSE "ERROR", output) >>

\* line 39
Identified(conan_version) ==
    Record("INFO", <<"Conan identified - ">> \o conan_version \o <<" ">>)

\* line 41
NotInstalled ==
    Record("ERROR", <<"Please check Conan is installed and configured properly ">>)

\* The records of a run of is_conan_installed that found conan.
ConanIdentified ==
    ExecuteCommandRecords(0, CommandOutput(0, TRUE))
    \o << Identified(CommandOutput(0, TRUE)) >>

\* `'Conan version' in conan_version` raises TypeError when execute_command
\* returned None.
is_conan_installed ==
    /\ pc = "is_conan_installed"
    /\ \E exit_code \in {0, 1}, has_version \in BOOLEAN :
       \E r \in {execute_command(exit_code)},
          output \in {CommandOutput(exit_code, has_version)} :
          IF r.output = "None"
          THEN /\ captured_records' = ExecuteCommandRecords(exit_code, output)
               /\ Exit("uncaught")
          ELSE IF Contains(<<"Conan version">>, output)
          THEN /\ captured_records' = ExecuteCommandRecords(exit_code, output)
                                        \o << Identified(output) >>
               /\ pc' = "map_conan_profile_values"
               /\ UNCHANGED exit_status
          ELSE /\ captured_records' = ExecuteCommandRecords(exit_code, output)
                                        \o << NotInstalled >>
               /\ Exit("exit_1")
    /\ UNCHANGED reattr_vars
    /\ UNCHANGED extract_vars
    /\ UNCHANGED environ
    /\ UNCHANGED <<config, conan_profile, conan_info_exit, conan_dependencies, on_disk,
                   source_folders_missing, item_idx, packages_l, recovery_log,
                   recovered, dirs_to_scan, sync_log, scan_dirs, status_log, slept>>

\* ------------------------------------------------ map_conan_profile_values
OsBuilds == {"Linux"}
ArchBuilds == {"x86_64"}

map_conan_profile_values ==
    /\ pc = "map_conan_profile_values"
    /\ \E show_exit \in {0, 1}, os_build \in OsBuilds, arch_build \in ArchBuilds :
          IF show_exit # 0
          THEN Exit("exit_1") /\ UNCHANGED conan_profile
          ELSE /\ conan_profile' = [os_build |-> os_build, arch_build |-> arch_build]
               /\ pc' = "run_additional_commands"
               /\ UNCHANGED exit_status
    /\ UNCHANGED reattr_vars
    /\ UNCHANGED extract_vars
    /\ UNCHANGED <<captured_records, environ>>
    /\ UNCHANGED <<config, conan_info_exit, conan_dependencies, on_disk, source_folders_missing,
                   item_idx, packages_l, recovery_log, recovered, dirs_to_scan,
                   sync_log, scan_dirs, status_log, slept>>

\* ------------------------------------------------- run_additional_commands
\* Each configured command runs through execute_command; a failure is logged.
run_additional_commands ==
    /\ pc = "run_additional_commands"
    /\ \E exit_code \in {0, 1} : execute_command(exit_code).raised = ""
    /\ pc' = "validate_project_manifest_file_exists"
    /\ UNCHANGED reattr_vars
    /\ UNCHANGED extract_vars
    /\ UNCHANGED <<captured_records, environ>>
    /\ UNCHANGED <<exit_status, config, conan_profile, conan_info_exit, conan_dependencies, on_disk,
                   source_folders_missing, item_idx, packages_l, recovery_log,
                   recovered, dirs_to_scan, sync_log, scan_dirs, status_log, slept>>

\* ----------------------------------- validate_project_manifest_file_exists
validate_project_manifest_file_exists ==
    /\ pc = "validate_project_manifest_file_exists"
    /\ \E txt_exists \in BOOLEAN, py_exists \in BOOLEAN :
          IF ~txt_exists /\ ~py_exists
          THEN Exit("exit_1")
          ELSE pc' = "map_all_dependencies" /\ UNCHANGED exit_status
    /\ UNCHANGED reattr_vars
    /\ UNCHANGED extract_vars
    /\ UNCHANGED <<captured_records, environ>>
    /\ UNCHANGED <<config, conan_profile, conan_info_exit, conan_dependencies, on_disk,
                   source_folders_missing, item_idx, packages_l, recovery_log,
                   recovered, dirs_to_scan, sync_log, scan_dirs, status_log, slept>>

\* ---------------------------------------------------- map_all_dependencies
\* deps.json as `conan info` writes it: the project's own entry, which has no
\* revision, and the first n references.
DepsJson(n) ==
    << [revision |-> "None", dep |-> NewDependency(<<"conanfile.py", "/", "None">>)] >>
    \o [i \in 1..n |-> [revision |-> "rev", dep |-> NewDependency(AllRefs[i])]]

HasRevision(x) == x.revision # "None"

\* The listing command runs through execute_command, so its failure reaches
\* this function as a None output; the function then opens deps.json, which
\* raises FileNotFoundError when the command wrote no file.
map_all_dependencies ==
    /\ pc = "map_all_dependencies"
    /\ \E exit_code \in {0, 1}, written \in BOOLEAN, n \in 0..MaxDeps :
          LET r == execute_command(exit_code)
              output_json == SelectSeq(DepsJson(n), HasRevision)
          IN
          /\ exit_code = 0 => written
          /\ conan_info_exit' = exit_code
          /\ IF r.raised = "CalledProcessError"
             THEN Exit("exit_1") /\ UNCHANGED conan_dependencies
             ELSE IF ~written
             THEN Exit("uncaught") /\ UNCHANGED conan_dependencies
             ELSE /\ conan_dependencies' = [i \in 1..Len(output_json) |-> output_json[i].dep]
                  /\ pc' = "run_conan_install_command"
                  /\ UNCHANGED exit_status
    /\ UNCHANGED reattr_vars
    /\ UNCHANGED extract_vars
    /\ UNCHANGED <<captured_records, environ>>
    /\ UNCHANGED <<config, conan_profile, on_disk, source_folders_missing, item_idx,
                   packages_l, recovery_log, recovered, dirs_to_scan, sync_log,
                   scan_dirs, status_log, slept>>

\* ----------------------------- run_conan_install_command and the main recipe
\* main, lines 663-668: the optional `conan install --build` pre-step and the
\* optional `conan source` of the project's own recipe.  Both commands run
\* through execute_command; their failure is logged and the run goes on.
run_conan_install_command ==
    /\ pc = "run_conan_install_command"
    /\ \E conan_run_pre_step \in BOOLEAN, exit_code \in {0, 1} :
          conan_run_pre_step => execute_command(exit_code).raised = ""
    /\ pc' = "conan_cache_packages_source_folder_missing"
    /\ UNCHANGED reattr_vars
    /\ UNCHANGED extract_vars
    /\ UNCHANGED <<captured_records, environ>>
    /\ UNCHANGED <<exit_status, config, conan_profile, conan_info_exit,
                   conan_dependencies, on_disk, source_folders_missing, item_idx,
                   packages_l, recovery_log, recovered, dirs_to_scan, sync_log,
                   scan_dirs, status_log, slept>>

\* ------------------------------ conan_cache_packages_source_folder_missing
NotRecovered ==
    [done |-> FALSE, steps |-> <<>>, recipe |-> FALSE, install_exit |-> 0,
     source_exit |-> 0, wd_manifest |-> FALSE, exp_manifest |-> FALSE]

\* Every reference listed, whether or not its source folder exists.
MissingRefsAll(deps, exists, i) == [k \in i..Len(deps) |-> deps[k].reference]

RECURSIVE MissingRefs(_, _, _)
MissingRefs(deps, exists, i) ==
    IF i > Len(deps) THEN <<>>
    ELSE (IF exists[i] THEN <<>> ELSE <<deps[i].reference>>) \o MissingRefs(deps, exists, i + 1)

\* main, lines 670-678: dirs_to_scan starts as the project path; the
\* references whose source folder is not on disk are listed; the recovery
\* runs when the list is not empty.
conan_cache_packages_source_folder_missing ==
    /\ pc = "conan_cache_packages_source_folder_missing"
    /\ \E exists \in [1..Len(conan_dependencies) -> BOOLEAN] :
          LET missing == MissingRefs(conan_dependencies, exists, 1) IN
          /\ on_disk' = exists
          /\ source_folders_missing' = missing
          /\ recovery_log' = [i \in 1..Len(missing) |-> NotRecovered]
          /\ IF Len(missing) > 0
             THEN pc' = "get_dependencies_from_download_source" /\ item_idx' = 1
             ELSE pc' = "get_source_folders_list" /\ item_idx' = 0
    /\ dirs_to_scan' = <<project_path>>
    /\ UNCHANGED reattr_vars
    /\ UNCHANGED extract_vars
    /\ UNCHANGED <<captured_records, environ>>
    /\ UNCHANGED <<exit_status, config, conan_profile, conan_info_exit,
                   conan_dependencies, packages_l, recovered, sync_log, scan_dirs,
                   status_log, slept>>

\* ------------------------------------ get_dependencies_from_download_source
\* deps_l_d[item]: the record of the reference (the dict shares the records
\* of conan_dependencies).
DepIndex(deps, ref) == CHOOSE i \in 1..Len(deps) : deps[i].reference = ref

\* One iteration of the loop over source_folders_missing.
get_dependencies_from_download_source ==
    /\ pc = "get_dependencies_from_download_source"
    /\ item_idx \in 1..Len(source_folders_missing)
    /\ \E env \in RecoveryEnvs :
       \E r \in {RecoverItem(source_folders_missing[item_idx], env, conan_profile)},
          d \in {DepIndex(conan_dependencies, source_folders_missing[item_idx])} :
          /\ recovery_log' = [recovery_log EXCEPT ![item_idx] =
                                [done |-> TRUE, steps |-> r.steps, recipe |-> env.recipe,
                                 install_exit |-> env.install_exit,
                                 source_exit |-> env.source_exit,
                                 wd_manifest |-> env.wd_manifest,
                                 exp_manifest |-> env.exp_manifest]]
          /\ packages_l' = packages_l \o r.appended
          /\ conan_dependencies' =
                IF r.conandata_yml = "unset" THEN conan_dependencies
                ELSE [conan_dependencies EXCEPT ![d].conandata_yml = r.conandata_yml]
          /\ IF r.raised # ""
             THEN Exit("uncaught") /\ UNCHANGED item_idx
             ELSE /\ UNCHANGED exit_status
                  /\ item_idx' = item_idx + 1
                  /\ pc' = IF item_idx = Len(source_folders_missing)
                           THEN "recovery_return"
                           ELSE "get_dependencies_from_download_source"
    /\ UNCHANGED reattr_vars
    /\ UNCHANGED extract_vars
    /\ UNCHANGED <<captured_records, environ>>
    /\ UNCHANGED <<config, conan_profile, conan_info_exit, on_disk,
                   source_folders_missing, recovered, dirs_to_scan, sync_log,
                   scan_dirs, status_log, slept>>

\* A recovery succeeded: one of its steps did.
Succeeded(log) == \E j \in 1..Len(log.steps) : log.steps[j].ok

\* main, lines 676-678: the function returns packages_l and main drops the
\* value; the function's locals are gone.
recovery_return ==
    /\ pc = "recovery_return"
    /\ recovered' = {package_directory(source_folders_missing[i]) :
                        i \in {k \in 1..Len(source_folders_missing) : Succeeded(recovery_log[k])}}
    /\ packages_l' = <<>>
    /\ recovery_log' = <<>>
    /\ item_idx' = 0
    /\ pc' = "get_source_folders_list"
    /\ UNCHANGED reattr_vars
    /\ UNCHANGED extract_vars
    /\ UNCHANGED <<captured_records, environ>>
    /\ UNCHANGED <<exit_status, config, conan_profile, conan_info_exit,
                   conan_dependencies, on_disk, source_folders_missing,
                   dirs_to_scan, sync_log, scan_dirs, status_log, slept>>

\* -------------------------------------------------- get_source_folders_list
InSeq(x, seq) == \E i \in 1..Len(seq) : seq[i] = x

RECURSIVE SourceFolderLibs(_, _, _)
SourceFolderLibs(missing, deps, i) ==
    IF i > Len(deps) THEN <<>>
    ELSE (IF InSeq(deps[i].reference, missing) THEN <<>> ELSE <<deps[i].source_folder>>)
         \o SourceFolderLibs(missing, deps, i + 1)

\* main, lines 681-684: the cache source folder of every reference that is
\* not missing is appended to dirs_to_scan, and the manifest path of such a
\* reference is set to export_folder/conandata.yml.
get_source_folders_list ==
    /\ pc = "get_source_folders_list"
    /\ conan_dependencies' =
          [i \in 1..Len(conan_dependencies) |->
              IF InSeq(conan_dependencies[i].reference, source_folders_missing)
              THEN conan_dependencies[i]
              ELSE [conan_dependencies[i] EXCEPT !.conandata_yml = "export"]]
    /\ dirs_to_scan' = dirs_to_scan
                       \o SourceFolderLibs(source_folders_missing, conan_dependencies, 1)
    /\ pc' = "csv_to_json"
    /\ UNCHANGED reattr_vars
    /\ UNCHANGED extract_vars
    /\ UNCHANGED <<captured_records, environ>>
    /\ UNCHANGED <<exit_status, config, conan_profile, conan_info_exit, on_disk,
                   source_folders_missing, item_idx, packages_l, recovery_log,
                   recovered, sync_log, scan_dirs, status_log, slept>>

\* ------------------------------ update_conandta_yml_download_url_from_ws_index
\* The canonical index (conan_index_url_map.csv), keyed by conanDownloadUrl.
index_download_links ==
    << [conanDownloadUrl |-> "U_idx", indexDownloadUrl |-> "U_canon", keyUuid |-> "K_canon"],
       [conanDownloadUrl |-> "U_idx2", indexDownloadUrl |-> "U_canon2", keyUuid |-> "K_canon2"] >>

IndexHit(url) ==
    url.t = "str" /\ \E i \in 1..Len(index_download_links) :
                        index_download_links[i].conanDownloadUrl = url.s
IndexGet(url) ==
    index_download_links[CHOOSE i \in 1..Len(index_download_links) :
                            index_download_links[i].conanDownloadUrl = url.s]

\* getSourceLibraryInfo for an index entry.  A WsSdkServerGenericError is
\* caught and passed over; the return statement then reads `response`, which
\* was never bound.
SyncOutcomes == {"keyUuid", "no_keyUuid", "WsSdkServerGenericError"}

sync_ws_org_with_conan_source_library_from_the_index(outcome, index_package) ==
    IF outcome = "WsSdkServerGenericError"
    THEN [raised |-> "UnboundLocalError", value |-> "None"]
    ELSE [raised |-> "",
          value |-> IF outcome = "keyUuid" THEN index_package.keyUuid ELSE "None"]

\* The manifests a dependency's conandata.yml can hold.
ReconcileManifests(version) ==
    { Manifest(version, Str("U_raw")),
      Manifest(version, Str("U_idx")),
      Manifest(version, List(<<Str("U_mirror"), Str("U_idx2")>>)),
      Manifest(version, Dict(<< [k |-> "Linux", v |-> Str("U_linux")] >>)),
      Manifest(version, Dict(<< [k |-> "Windows", v |-> Str("U_windows")] >>)),
      Dict(<<>>) }

NotReconciled == [done |-> FALSE, extracted |-> Unset, hit |-> FALSE, calls |-> 0, outcome |-> ""]

\* line 305: the index is fetched over HTTP; a network error is not caught.
csv_to_json ==
    /\ pc = "csv_to_json"
    /\ sync_log' = [i \in 1..Len(conan_dependencies) |-> NotReconciled]
    /\ \E net \in {"ok", "ConnectionError"} :
          IF net # "ok" THEN Exit("uncaught") /\ UNCHANGED item_idx
          ELSE /\ UNCHANGED exit_status
               /\ item_idx' = 1
               /\ pc' = IF Len(conan_dependencies) = 0
                        THEN "scan_with_unified_agent"
                        ELSE "update_conandta_yml_download_url_from_ws_index"
    /\ UNCHANGED reattr_vars
    /\ UNCHANGED extract_vars
    /\ UNCHANGED <<captured_records, environ>>
    /\ UNCHANGED <<config, conan_profile, conan_info_exit, conan_dependencies, on_disk,
                   source_folders_missing, packages_l, recovery_log, recovered,
                   dirs_to_scan, scan_dirs, status_log, slept>>

\* The index has the url, and the url of the manifest is kept all the same.
IndexFoundKeepsUrl(package, url, index_package_data, sync, outcome) ==
    [package |-> IF sync.raised # ""
                 THEN [package EXCEPT !.conandata_yml_download_url = url]
                 ELSE [package EXCEPT !.conandata_yml_download_url = url,
                                      !.key_uuid = sync.value],
     raised |-> sync.raised,
     log |-> [done |-> TRUE, extracted |-> url, hit |-> TRUE, calls |-> 1,
              outcome |-> outcome]]

\* lines 313-318: the index has the url; the canonical url is stored, the
\* identity is synced and the handle it returns is stored.
IndexFound(package, url, index_package_data, sync, outcome) ==
    [package |-> IF sync.raised # ""
                 THEN [package EXCEPT !.conandata_yml_download_url =
                                         Str(index_package_data.indexDownloadUrl)]
                 ELSE [package EXCEPT !.conandata_yml_download_url =
                                         Str(index_package_data.indexDownloadUrl),
                                      !.key_uuid = sync.value],
     raised |-> sync.raised,
     log |-> [done |-> TRUE, extracted |-> url, hit |-> TRUE, calls |-> 1,
              outcome |-> outcome]]

\* lines 309-320, given the result r of extract_url_from_conan_data_yml.
\* index_download_links.get(url) raises TypeError for a url that is a dict
\* or a list (unhashable).
IndexLookup(package, r, outcome) ==
    IF r.raised # ""
    THEN [package |-> package, raised |-> r.raised,
          log |-> [NotReconciled EXCEPT !.done = TRUE]]
    ELSE IF r.value.t \in {"dict", "list"}
    THEN [package |-> package, raised |-> "TypeError",
          log |-> [NotReconciled EXCEPT !.done = TRUE, !.extracted = r.value]]
    ELSE IF IndexHit(r.value)
    THEN IndexFound(package, r.value, IndexGet(r.value),
                    sync_ws_org_with_conan_source_library_from_the_index(outcome, IndexGet(r.value)),
                    outcome)
    ELSE [package |-> [package EXCEPT !.conandata_yml_download_url = r.value],
          raised |-> "",
          log |-> [NotReconciled EXCEPT !.done = TRUE, !.extracted = r.value]]

\* lines 307-323: the body of the loop for one package, whose counter has
\* been set to 0.
ReconcilePackage(package, doc, outcome, profile) ==
    IF package.conandata_yml = "unset"
    THEN [package |-> [package EXCEPT !.conandata_yml_download_url = None],
          raised |-> "",
          log |-> [NotReconciled EXCEPT !.done = TRUE]]
    ELSE IndexLookup(package, extract_url_from_conan_data_yml(doc, profile), outcome)

\* One iteration of the loop over conan_deps (lines 306-323).
update_conandta_yml_download_url_from_ws_index ==
    /\ pc = "update_conandta_yml_download_url_from_ws_index"
    /\ item_idx \in 1..Len(conan_dependencies)
    /\ \E doc \in ReconcileManifests(conan_dependencies[item_idx].reference[3]) \cup {Absent},
          outcome \in SyncOutcomes :
          \* a manifest path stored by the recovery was checked with isfile
          /\ InSeq(conan_dependencies[item_idx].reference, source_folders_missing) => doc # Absent
          /\ \E res \in {ReconcilePackage([conan_dependencies[item_idx] EXCEPT !.counter = 0],
                                          doc, outcome, conan_profile)} :
                /\ conan_dependencies' = [conan_dependencies EXCEPT ![item_idx] = res.package]
                /\ sync_log' = [sync_log EXCEPT ![item_idx] = res.log]
                /\ IF res.raised # ""
                   THEN Exit("uncaught") /\ UNCHANGED item_idx
                   ELSE /\ UNCHANGED exit_status
                        /\ item_idx' = item_idx + 1
                        /\ pc' = IF item_idx = Len(conan_dependencies)
                                 THEN "scan_with_unified_agent"
                                 ELSE "update_conandta_yml_download_url_from_ws_index"
    /\ UNCHANGED reattr_vars
    /\ UNCHANGED extract_vars
    /\ UNCHANGED <<captured_records, environ>>
    /\ UNCHANGED <<config, conan_profile, conan_info_exit, on_disk,
                   source_folders_missing, packages_l, recovery_log, recovered,
                   dirs_to_scan, scan_dirs, status_log, slept>>

\* ------------------------------------------------- scan_with_unified_agent
\* Path(item).absolute()
Absolute(path) == IF path[1] = "/" THEN path ELSE <<"/", "cwd", "/">> \o path

\* lines 257-258
ws_exclude_hc == <<"**/ws_conan_scanned_*", "jna-1649909383">>
ws_excludes_def ==
    <<"**/*conan_export.tgz", "**/*conan_package.tgz", "**/*conanfile.py",
      "**/node_modules", "**/src/test", "**/testdata", "**/*sources.jar",
      "**/*javadoc.jar">>

\* lines 259-260: the value given to os.environ['WS_EXCLUDES'].  With the
\* variable set it is `value + ',' + ws_exclude_hc`; with the variable not
\* set it is `'' + ws_exclude_hc + ',' + ws_excludes_def`.
WS_EXCLUDES(env) ==
    [set |-> TRUE,
     patterns |-> IF env.set
                  THEN env.patterns \o ws_exclude_hc
                  ELSE ws_exclude_hc \o ws_excludes_def]

\* lines 246-274: the directories are made absolute, the exclusions are set
\* and the directories are handed to the scan.
scan_with_unified_agent ==
    /\ pc = "scan_with_unified_agent"
    /\ scan_dirs' = [i \in 1..Len(dirs_to_scan) |-> Absolute(dirs_to_scan[i])]
    /\ environ' = WS_EXCLUDES(environ)
    /\ pc' = "get_last_scan_process_status"
    /\ UNCHANGED reattr_vars
    /\ UNCHANGED extract_vars
    /\ UNCHANGED captured_records
    /\ UNCHANGED <<exit_status, config, conan_profile, conan_info_exit,
                   conan_dependencies, on_disk, source_folders_missing, item_idx,
                   packages_l, recovery_log, recovered, dirs_to_scan, sync_log,
                   status_log, slept>>

Statuses == {"UPDATED", "FINISHED", "UNKNOWN", "FAILED", "IN_PROGRESS"}

\* The success test with UPDATED left out of its list.
ScanCompletedOnlyFinished(new_status) == new_status = "FINISHED"

\* `new_status in ['UPDATED', 'FINISHED']` and `new_status in ['UNKNOWN', 'FAILED']`
ScanCompleted(new_status) == new_status \in {"UPDATED", "FINISHED"}
ScanFailed(new_status) == new_status \in {"UNKNOWN", "FAILED"}

\* The loop sleeping after every poll, before it looks at the status.
SleepAfterEveryPoll(new_status) == POLL_INTERVAL

\* lines 280-287: time.sleep(20.0) runs in the else branch only
SleepAfter(new_status) ==
    IF ScanCompleted(new_status) \/ ScanFailed(new_status) THEN 0 ELSE POLL_INTERVAL

\* One iteration of the poll loop (lines 277-287).
get_last_scan_process_status ==
    /\ pc = "get_last_scan_process_status"
    /\ Len(status_log) < MaxPolls
    /\ \E new_status \in Statuses :
          /\ status_log' = Append(status_log, new_status)
          /\ slept' = slept + SleepAfter(new_status)
          /\ IF ScanCompleted(new_status)
             THEN pc' = "scan_return" /\ UNCHANGED exit_status
             ELSE IF ScanFailed(new_status)
             THEN Exit("exit_1")
             ELSE UNCHANGED <<pc, exit_status>>
    /\ UNCHANGED reattr_vars
    /\ UNCHANGED extract_vars
    /\ UNCHANGED <<captured_records, environ>>
    /\ UNCHANGED <<config, conan_profile, conan_info_exit, conan_dependencies, on_disk,
                   source_folders_missing, item_idx, packages_l, recovery_log,
                   recovered, dirs_to_scan, sync_log, scan_dirs>>

\* scan_with_unified_agent returns to main (line 695): its locals are gone;
\* the reattribution is entered when change_origin_library is set.
scan_return ==
    /\ pc = "scan_return"
    /\ status_log' = <<>>
    /\ slept' = 0
    /\ pc' = IF config.change_origin_library
             THEN "change_project_source_file_inventory_match"
             ELSE "finish"
    /\ UNCHANGED reattr_vars
    /\ UNCHANGED extract_vars
    /\ UNCHANGED <<captured_records, environ>>
    /\ UNCHANGED <<exit_status, config, conan_profile, conan_info_exit,
                   conan_dependencies, on_disk, source_folders_missing, item_idx,
                   packages_l, recovery_log, recovered, dirs_to_scan, sync_log,
                   scan_dirs>>

\* main, lines 699-711: the install folder is removed or renamed and main
\* returns.
finish ==
    /\ pc = "finish"
    /\ Exit("exit_0")
    /\ UNCHANGED reattr_vars
    /\ UNCHANGED extract_vars
    /\ UNCHANGED <<captured_records, environ>>
    /\ UNCHANGED <<config, conan_profile, conan_info_exit, conan_dependencies, on_disk,
                   source_folders_missing, item_idx, packages_l, recovery_log,
                   recovered, dirs_to_scan, sync_log, scan_dirs, status_log, slept>>

\* =========================================================================
\* change_project_source_file_inventory_match: the reattribution of the
\* scanned source files (lines 336-583).
\* =========================================================================
MaxFiles == 2       \* source files in the project's inventory

\* json.dumps of a string, and the two ways the code undoes it.
JsonDumps(tokens) == <<"\"">> \o tokens \o <<"\"">>
RECURSIVE StripLeft(_, _)
StripLeft(tokens, c) ==
    IF Len(tokens) > 0 /\ tokens[1] = c THEN StripLeft(Tail(tokens), c) ELSE tokens
RECURSIVE StripRight(_, _)
StripRight(tokens, c) ==
    IF Len(tokens) > 0 /\ tokens[Len(tokens)] = c
    THEN StripRight(SubSeq(tokens, 1, Len(tokens) - 1), c) ELSE tokens
\* key_uuid.strip('"')
Strip(tokens, c) == StripRight(StripLeft(tokens, c), c)
\* json.loads of a dumped string
JsonLoads(tokens) == SubSeq(tokens, 2, Len(tokens) - 1)

\* str.partition('/'): the position of the first separator
PartitionAt(reference) ==
    IF InSeq("/", reference)
    THEN CHOOSE i \in 1..Len(reference) :
            reference[i] = "/" /\ \A j \in 1..(i - 1) : reference[j] # "/"
    ELSE Len(reference) + 1

\* The names added and the record's key_uuid dropped.
WithNamesWithoutKeyUuid(package) ==
    [package EXCEPT
        !.package_full_name = Replace(package.reference, "/", "-"),
        !.name = SubSeq(package.reference, 1, PartitionAt(package.reference) - 1),
        !.version = SubSeq(package.reference, PartitionAt(package.reference) + 1,
                           Len(package.reference)),
        !.key_uuid = "unset"]

\* lines 473-476: package_full_name, name and version are added to a record.
WithNames(package) ==
    [package EXCEPT
        !.package_full_name = Replace(package.reference, "/", "-"),
        !.name = SubSeq(package.reference, 1, PartitionAt(package.reference) - 1),
        !.version = SubSeq(package.reference, PartitionAt(package.reference) + 1,
                           Len(package.reference))]

\* ------------------------------------------------- what the backend returns
\* get_inventory: the project's libraries.
Inventories ==
    { << [filename |-> <<"Zlib", "-", "1.2.11">>, keyUuid |-> "K_canon", type |-> type,
          download_link |-> "unset"],
         [filename |-> <<"other", "-", "1.0">>, keyUuid |-> "K_other",
          type |-> "SOURCE_LIBRARY", download_link |-> "unset"] >>
      : type \in {"SOURCE_LIBRARY", "MAVEN_ARTIFACT"} }

\* get_due_diligence: a library with more than one licence has an asterisk
\* after its name; a library may have no entry.
DueDiligenceLinks == {"absent", "", "U_raw", "U_canon"}
DueDiligence(link) ==
    (IF link = "absent" THEN <<>>
     ELSE << [library |-> <<"Zlib", "-", "1.2.11", "*">>, download_link |-> link] >>)
    \o << [library |-> <<"other", "-", "1.0">>, download_link |-> "U_other"] >>

\* get_source_file_inventory: the files the scan uploaded, each attributed to
\* a library.  The paths are under the working directory of zlib, under the
\* cache source folder of bzip2, or under both a bzip2 and a zlib folder.
ZlibLibrary == [artifactId |-> <<"Zlib">>, version |-> <<"1.2.11">>]
OtherLibrary == [artifactId |-> <<"other">>, version |-> <<"1.0">>]
Unmatched == [artifactId |-> <<"Unmatched Source Files">>, version |-> <<"">>]
ZlibPath == package_directory(AllRefs[1]) \o <<"/", "a.c">>
Bzip2Path == source_folder(AllRefs[2]) \o <<"/", "b.c">>
BothPath == source_folder(AllRefs[2]) \o <<"/", "zlib", "-", "1.2.11", "/", "c.c">>
FileUniverse ==
    << [path |-> ZlibPath, library |-> ZlibLibrary],
       [path |-> ZlibPath, library |-> OtherLibrary],
       [path |-> Bzip2Path, library |-> OtherLibrary],
       [path |-> Bzip2Path, library |-> Unmatched],
       [path |-> BothPath, library |-> ZlibLibrary] >>
Sha1s == {"h1", "h2"}
\* The hashes of the chosen files: the first file has h1, a later one has the
\* same hash or the other one.
Sha1Choices(chosen) ==
    {sha1 \in [chosen -> Sha1s] :
        \A i \in chosen : (\A j \in chosen : i <= j) => sha1[i] = "h1"}

\* The files of a choice, in the order of FileUniverse.
RECURSIVE SourceFileInventory(_, _, _)
SourceFileInventory(chosen, sha1, i) ==
    IF i > Len(FileUniverse) THEN <<>>
    ELSE (IF i \in chosen
          THEN << [path |-> FileUniverse[i].path, sha1 |-> sha1[i],
                   library |-> FileUniverse[i].library] >>
          ELSE <<>>)
         \o SourceFileInventory(chosen, sha1, i + 1)

\* ------------------------------------ process_project_due_diligence_report
StripAsterisk(lib) ==
    IF lib.library[Len(lib.library)] = "*"
    THEN [lib EXCEPT !.library = SubSeq(lib.library, 1, Len(lib.library) - 1)]
    ELSE lib

process_project_due_diligence_report(project_due_diligence) ==
    [i \in 1..Len(project_due_diligence) |-> StripAsterisk(project_due_diligence[i])]

\* due_diligence.get(name): the last entry of that name, "absent" when none.
DueDiligenceGet(due_diligence, name) ==
    IF \E i \in 1..Len(due_diligence) : due_diligence[i].library = name
    THEN due_diligence[CHOOSE i \in 1..Len(due_diligence) :
                          /\ due_diligence[i].library = name
                          /\ \A j \in (i + 1)..Len(due_diligence) :
                                due_diligence[j].library # name].download_link
    ELSE "absent"

\* ----------------------------------- prepare_project_source_files_to_remap
source_lib_full_name(library) == library.artifactId \o <<"-">> \o library.version

IsUnmatched(source_file) ==
    Contains(<<"Unmatched Source Files">>, source_file.library.artifactId)

\* lines 364-371 for one file; a file of the unmatched bucket gets no
\* download_link key.
PrepareSourceFile(due_diligence_d, source_file) ==
    [path |-> source_file.path,
     sha1 |-> source_file.sha1,
     library |-> source_file.library,
     sc_counter |-> 0,
     source_lib_full_name |-> source_lib_full_name(source_file.library),
     download_link |-> IF IsUnmatched(source_file) THEN Unset
                       ELSE Str(DueDiligenceGet(due_diligence_d,
                                                source_lib_full_name(source_file.library))),
     accurate_match |-> FALSE,
     need_to_remap |-> FALSE]

\* line 368 raises AttributeError for a file whose library has no entry.
prepare_project_source_files_to_remap(due_diligence_d, sf_inventory) ==
    IF \E i \in 1..Len(sf_inventory) :
          /\ ~IsUnmatched(sf_inventory[i])
          /\ DueDiligenceGet(due_diligence_d, source_lib_full_name(sf_inventory[i].library))
                = "absent"
    THEN [raised |-> "AttributeError", value |-> <<>>]
    ELSE [raised |-> "",
          value |-> [i \in 1..Len(sf_inventory) |->
                        PrepareSourceFile(due_diligence_d, sf_inventory[i])]]

\* ----------------------------- get_project_inventory_dict_by_download_link
\* lines 327-331: every library gets the download link of its due-diligence
\* entry, '' when it has none.
JoinDownloadLinks(due_diligence, inventory) ==
    [i \in 1..Len(inventory) |->
        [inventory[i] EXCEPT !.download_link =
            IF DueDiligenceGet(due_diligence, inventory[i].filename) = "absent" THEN ""
            ELSE DueDiligenceGet(due_diligence, inventory[i].filename)]]

NoLibrary == [filename |-> <<>>, keyUuid |-> "None", type |-> "None", download_link |-> "None"]

\* project_inventory_d_by_download_link.get(url): the last library with that
\* download link, None when there is none or the url is None.
get_project_inventory_dict_by_download_link(inventory, url) ==
    IF url.t = "str" /\ \E i \in 1..Len(inventory) : inventory[i].download_link = url.s
    THEN inventory[CHOOSE i \in 1..Len(inventory) :
                      /\ inventory[i].download_link = url.s
                      /\ \A j \in (i + 1)..Len(inventory) : inventory[j].download_link # url.s]
    ELSE NoLibrary

\* lines 457-476: the backend's data are fetched and joined, and the names
\* are added to the dependency records.
change_project_source_file_inventory_match ==
    /\ pc = "change_project_source_file_inventory_match"
    /\ \E link \in DueDiligenceLinks, inventory \in Inventories,
          chosen \in {c \in SUBSET (1..Len(FileUniverse)) : Cardinality(c) <= MaxFiles} :
       \E sha1 \in Sha1Choices(chosen) :
       \E due_diligence \in {process_project_due_diligence_report(DueDiligence(link))} :
       \E prepared \in {prepare_project_source_files_to_remap(
                           due_diligence, SourceFileInventory(chosen, sha1, 1))} :
          IF prepared.raised # ""
          THEN /\ Exit("uncaught")
               /\ UNCHANGED <<conan_dependencies, source_files, project_inventory, item_idx>>
          ELSE /\ source_files' = prepared.value
               /\ project_inventory' = JoinDownloadLinks(due_diligence, inventory)
               /\ conan_dependencies' = [i \in 1..Len(conan_dependencies) |->
                                            WithNames(conan_dependencies[i])]
               /\ item_idx' = 1
               /\ pc' = IF Len(conan_dependencies) = 0 THEN "finish"
                        ELSE "get_project_source_files_inventory_to_remap"
               /\ UNCHANGED exit_status
    /\ UNCHANGED <<libraries_key_uuid_and_sf_sha1, second_phase, third_phase, remaining,
                   calls, no_match_log>>
    /\ UNCHANGED pipeline_vars
    /\ UNCHANGED extract_vars

\* ------------------------------ get_project_source_files_inventory_to_remap
\* `pkg['package_full_name'] in path or pkg['source_folder'] in path`
PathMatches(pkg, source_file) ==
    \/ Contains(pkg.package_full_name, source_file.path)
    \/ Contains(pkg.source_folder, source_file.path)

\* `download_link in str(library)`: a substring test on the printed library
\* (or on 'None').  The empty string is in every string; a link, which is a
\* url, is in the printed library when it is the library's download link.
LinkInStr(download_link, library) ==
    \/ download_link = ""
    \/ library # NoLibrary /\ download_link = library.download_link

\* `pkg.get('key_uuid')` is truthy
HasKeyUuid(pkg) == pkg.key_uuid \notin {"unset", "None", ""}

\* libraries_key_uuid_and_sf_sha1[json.dumps(key_uuid)].append(sha1), on a
\* defaultdict(list) that keeps the order in which its keys were added.
QueueAppend(queue, key, sha1) ==
    IF \E i \in 1..Len(queue) : queue[i].key = key
    THEN [i \in 1..Len(queue) |->
            IF queue[i].key = key
            THEN [queue[i] EXCEPT !.sha_ones = Append(queue[i].sha_ones, sha1)]
            ELSE queue[i]]
    ELSE Append(queue, [key |-> key, sha_ones |-> <<sha1>>])

\* The same with the queueing branch clearing the file's accurate_match.
MatchSourceFileClearing(pkg, st, i, source_file, library) ==
    IF ~PathMatches(pkg, source_file) THEN st
    ELSE IF source_file.download_link.t = "str"
            /\ LinkInStr(source_file.download_link.s, library)
    THEN [st EXCEPT !.counter = st.counter + 1,
                    !.source_files[i].accurate_match = TRUE]
    ELSE IF HasKeyUuid(pkg)
    THEN [st EXCEPT !.source_files[i].need_to_remap = TRUE,
                    !.source_files[i].accurate_match = FALSE,
                    !.queue = QueueAppend(st.queue, JsonDumps(<<pkg.key_uuid>>),
                                          source_file.sha1)]
    ELSE [st EXCEPT !.source_files[i].sc_counter = source_file.sc_counter + 1,
                    !.second_phase = Append(st.second_phase, i)]

\* lines 383-394 for the file at position i; st holds the files, the
\* package's counter, the queue and the second-phase list.
MatchSourceFile(pkg, st, i, source_file, library) ==
    IF ~PathMatches(pkg, source_file) THEN st
    ELSE IF source_file.download_link.t = "str"
            /\ LinkInStr(source_file.download_link.s, library)
    THEN [st EXCEPT !.counter = st.counter + 1,
                    !.source_files[i].accurate_match = TRUE]
    ELSE IF HasKeyUuid(pkg)
    THEN [st EXCEPT !.source_files[i].need_to_remap = TRUE,
                    !.queue = QueueAppend(st.queue, JsonDumps(<<pkg.key_uuid>>),
                                          source_file.sha1)]
    ELSE [st EXCEPT !.source_files[i].sc_counter = source_file.sc_counter + 1,
                    !.second_phase = Append(st.second_phase, i)]

RECURSIVE MatchSourceFiles(_, _, _, _)
MatchSourceFiles(pkg, st, i, library) ==
    IF i > Len(st.source_files) THEN st
    ELSE MatchSourceFiles(pkg, MatchSourceFile(pkg, st, i, st.source_files[i], library),
                          i + 1, library)

\* What main does after phase 1 and after the first-phase remap (lines
\* 482-488).
AfterFirstPhase(queue, second) ==
    IF Len(second) > 0 THEN "remap_third_phase_prepare" ELSE "finish"
AfterPhaseOne(queue, second) ==
    IF Len(queue) > 0 THEN "project_source_files_remap_first_phase"
    ELSE AfterFirstPhase(queue, second)

\* One iteration of the loop over deps (lines 381-398).  The log line of a
\* package with counter > 0 subscripts the library found under the package's
\* url, which raises TypeError when there is none.
get_project_source_files_inventory_to_remap ==
    /\ pc = "get_project_source_files_inventory_to_remap"
    /\ item_idx \in 1..Len(conan_dependencies)
    /\ \E library \in {get_project_inventory_dict_by_download_link(
                          project_inventory,
                          conan_dependencies[item_idx].conandata_yml_download_url)} :
       \E st \in {MatchSourceFiles(conan_dependencies[item_idx],
                                   [source_files |-> source_files,
                                    counter |-> conan_dependencies[item_idx].counter,
                                    queue |-> libraries_key_uuid_and_sf_sha1,
                                    second_phase |-> second_phase],
                                   1, library)} :
          /\ source_files' = st.source_files
          /\ conan_dependencies' = [conan_dependencies EXCEPT ![item_idx].counter = st.counter]
          /\ libraries_key_uuid_and_sf_sha1' = st.queue
          /\ second_phase' = st.second_phase
          /\ IF st.counter > 0 /\ library = NoLibrary
             THEN Exit("uncaught") /\ UNCHANGED item_idx
             ELSE /\ UNCHANGED exit_status
                  /\ IF item_idx < Len(conan_dependencies)
                     THEN item_idx' = item_idx + 1 /\ UNCHANGED pc
                     ELSE item_idx' = 1 /\ pc' = AfterPhaseOne(st.queue, st.second_phase)
    /\ UNCHANGED <<project_inventory, third_phase, remaining, calls, no_match_log>>
    /\ UNCHANGED pipeline_vars
    /\ UNCHANGED extract_vars

\* ----------------------------------- project_source_files_remap_first_phase
\* change_origin_of_source_lib returns or raises WsSdkServerGenericError,
\* which every call site catches and passes over.
CallOutcomes == {"ok", "WsSdkServerGenericError"}

\* A string held as a sequence of at most one token.
TokenString(tokens) == IF Len(tokens) = 0 THEN "" ELSE tokens[1]

\* get_inventory after a call, keyed by keyUuid: the target library is one of
\* the project's libraries when the call moved files to it or when it was
\* one before.
InventoryHasKeyUuid(inventory, key_uuid, outcome) ==
    \/ outcome = "ok"
    \/ \E i \in 1..Len(inventory) : inventory[i].keyUuid = key_uuid

\* One iteration of the loop over the queue (lines 407-419).  The log line
\* reads the filename of the library listed under key_uuid, which raises
\* AttributeError when the inventory lists none.
project_source_files_remap_first_phase ==
    /\ pc = "project_source_files_remap_first_phase"
    /\ item_idx \in 1..Len(libraries_key_uuid_and_sf_sha1)
    /\ \E outcome \in CallOutcomes :
       \E key_uuid \in {TokenString(Strip(libraries_key_uuid_and_sf_sha1[item_idx].key, "\""))} :
          /\ calls' = Append(calls,
                             [phase |-> 1, branch |-> "key_uuid", lib_uuid |-> key_uuid,
                              source_files_sha1 |-> libraries_key_uuid_and_sf_sha1[item_idx].sha_ones,
                              outcome |-> outcome])
          /\ IF ~InventoryHasKeyUuid(project_inventory, key_uuid, outcome)
             THEN Exit("uncaught") /\ UNCHANGED item_idx
             ELSE /\ UNCHANGED exit_status
                  /\ IF item_idx < Len(libraries_key_uuid_and_sf_sha1)
                     THEN item_idx' = item_idx + 1 /\ UNCHANGED pc
                     ELSE /\ item_idx' = 1
                          /\ pc' = AfterFirstPhase(libraries_key_uuid_and_sf_sha1, second_phase)
    /\ UNCHANGED <<conan_dependencies, source_files, project_inventory,
                   libraries_key_uuid_and_sf_sha1, second_phase, third_phase, remaining,
                   no_match_log>>
    /\ UNCHANGED pipeline_vars
    /\ UNCHANGED extract_vars

\* ------------------ get_project_source_files_inventory_to_remap_third_phase
\* The filter without its test of sc_counter.
KeptWhateverTheCounter(source_file) ==
    /\ ~source_file.accurate_match
    /\ ~source_file.need_to_remap

\* The filter without its test of need_to_remap.
KeptThoughQueued(source_file) ==
    /\ ~source_file.accurate_match
    /\ source_file.sc_counter < 2

\* lines 427-430.  The second-phase list holds the file records themselves,
\* so a flag set on a file after it was appended is seen here.
KeptForThirdPhase(source_file) ==
    /\ ~source_file.accurate_match
    /\ ~source_file.need_to_remap
    /\ source_file.sc_counter < 2

\* The filter dropping, besides, the first of the files it keeps.
ThirdPhaseWithoutFirst(files, proj_sf_map_second_ph) ==
    IF \E k \in 1..Len(proj_sf_map_second_ph) :
          KeptForThirdPhase(files[proj_sf_map_second_ph[k]])
    THEN Tail(SelectSeq(proj_sf_map_second_ph, LAMBDA k : KeptForThirdPhase(files[k])))
    ELSE <<>>

RECURSIVE get_project_source_files_inventory_to_remap_third_phase(_, _)
get_project_source_files_inventory_to_remap_third_phase(files, proj_sf_map_second_ph) ==
    IF Len(proj_sf_map_second_ph) = 0 THEN <<>>
    ELSE (IF KeptForThirdPhase(files[Head(proj_sf_map_second_ph)])
          THEN <<Head(proj_sf_map_second_ph)>> ELSE <<>>)
         \o get_project_source_files_inventory_to_remap_third_phase(
               files, Tail(proj_sf_map_second_ph))

\* ------------------ get_packages_source_files_from_inventory_scan_results
\* lines 441-443 for the file at position k of the third-phase list.
RegroupFile(pkg, st, position) ==
    IF PathMatches(pkg, st.source_files[position])
    THEN [st EXCEPT !.source_files[position].download_link = pkg.conandata_yml_download_url,
                    !.queue = QueueAppend(st.queue, JsonDumps(pkg.package_full_name),
                                          st.source_files[position].sha1)]
    ELSE st

RECURSIVE RegroupFiles(_, _, _, _)
RegroupFiles(pkg, st, third, k) ==
    IF k > Len(third) THEN st
    ELSE RegroupFiles(pkg, RegroupFile(pkg, st, third[k]), third, k + 1)

RECURSIVE get_packages_source_files_from_inventory_scan_results(_, _, _, _)
get_packages_source_files_from_inventory_scan_results(st, third, cn_deps, i) ==
    IF i > Len(cn_deps) THEN st
    ELSE get_packages_source_files_from_inventory_scan_results(
            RegroupFiles(cn_deps[i], st, third, 1), third, cn_deps, i + 1)

\* lines 489-497: phase 2 narrows the second-phase list and the files kept
\* are regrouped by package.
remap_third_phase_prepare ==
    /\ pc = "remap_third_phase_prepare"
    /\ \E third \in {get_project_source_files_inventory_to_remap_third_phase(
                        source_files, second_phase)} :
       \E st \in {get_packages_source_files_from_inventory_scan_results(
                     [source_files |-> source_files, queue |-> <<>>],
                     third, conan_dependencies, 1)} :
          /\ third_phase' = third
          /\ source_files' = st.source_files
          /\ remaining' = st.queue
          /\ item_idx' = 1
          /\ pc' = IF Len(st.queue) > 0 THEN "remap_remaining_packages" ELSE "finish"
    /\ UNCHANGED <<exit_status, conan_dependencies, project_inventory,
                   libraries_key_uuid_and_sf_sha1, second_phase, calls, no_match_log>>
    /\ UNCHANGED pipeline_vars
    /\ UNCHANGED extract_vars

\* ------------------------------------------------ phase 3 (lines 499-583)
\* packages_dict_by_package_full_name[package]
PackageByFullName(deps, package) ==
    deps[CHOOSE i \in 1..Len(deps) :
            /\ deps[i].package_full_name = package
            /\ \A j \in (i + 1)..Len(deps) : deps[j].package_full_name # package]

\* get_libraries(library_name): what the global search can return.
SearchResults ==
    { <<>>,
      << [type |-> "Source Library", url |-> Str("U_raw"), keyUuid |-> "K_search"] >>,
      << [type |-> "Library", url |-> Str("U_raw"), keyUuid |-> "K_binary"] >>,
      << [type |-> "Source Library", url |-> None, keyUuid |-> "K_nourl"] >> }

IsSourceLibrary(library) == library.type = "Source Library"

NoSearchHit == [type |-> "None", url |-> Unset, keyUuid |-> "None"]

\* source_libraries_dict_from_search_by_download_link.get(check_url)
SearchGet(source_libraries, check_url) ==
    IF \E i \in 1..Len(source_libraries) : source_libraries[i].url = check_url
    THEN source_libraries[CHOOSE i \in 1..Len(source_libraries) :
                             /\ source_libraries[i].url = check_url
                             /\ \A j \in (i + 1)..Len(source_libraries) :
                                   source_libraries[j].url # check_url]
    ELSE NoSearchHit

\* str.lower()
Lower(tokens) == [i \in 1..Len(tokens) |-> IF tokens[i] = "Zlib" THEN "zlib" ELSE tokens[i]]

\* lines 553-557
NameMatches(pkg, library) ==
    /\ Contains(pkg.name, Lower(library.filename))
    /\ Contains(pkg.version, Lower(library.filename))
    /\ library.type = "SOURCE_LIBRARY"

\* project_source_files_inventory_to_remap_third_phase_dict.get(sha1): the
\* last file of the third-phase list with that hash.
ThirdPhaseBySha1(files, third, sha1) ==
    files[third[CHOOSE k \in 1..Len(third) :
                   /\ files[third[k]].sha1 = sha1
                   /\ \A j \in (k + 1)..Len(third) : files[third[j]].sha1 # sha1]]

\* lines 560-566
RECURSIVE Sha1sFinal(_, _, _, _)
Sha1sFinal(files, third, sha1s, library) ==
    IF Len(sha1s) = 0 THEN <<>>
    ELSE (IF ThirdPhaseBySha1(files, third, Head(sha1s)).source_lib_full_name
                = library.filename
          THEN <<>> ELSE <<Head(sha1s)>>)
         \o Sha1sFinal(files, third, Tail(sha1s), library)

Call(branch, lib_uuid, sha1s, outcome) ==
    [phase |-> 3, branch |-> branch, lib_uuid |-> lib_uuid, source_files_sha1 |-> sha1s,
     outcome |-> outcome]

\* lines 552-580: the calls of the loop over project_inventory, from library i on.
RECURSIVE NameFallbackCalls(_, _, _, _, _, _, _)
NameFallbackCalls(pkg, inventory, i, files, third, sha1s, outcome) ==
    IF i > Len(inventory) THEN <<>>
    ELSE (IF NameMatches(pkg, inventory[i])
             /\ Len(Sha1sFinal(files, third, sha1s, inventory[i])) > 0
          THEN << Call("name", inventory[i].keyUuid,
                       Sha1sFinal(files, third, sha1s, inventory[i]), outcome) >>
          ELSE <<>>)
         \o NameFallbackCalls(pkg, inventory, i + 1, files, third, sha1s, outcome)

\* The same without the else branch of line 579: no_match is cleared only by
\* a call.
RemapPackageWithoutElse(pkg, sha1s, search, outcome, inventory, files, third) ==
    IF HasKeyUuid(pkg)
    THEN [calls |-> << Call("key_uuid", pkg.key_uuid, sha1s, outcome) >>, no_match |-> FALSE]
    ELSE IF SearchGet(SelectSeq(search, IsSourceLibrary),
                      pkg.conandata_yml_download_url) # NoSearchHit
    THEN [calls |-> << Call("search",
                            SearchGet(SelectSeq(search, IsSourceLibrary),
                                      pkg.conandata_yml_download_url).keyUuid,
                            sha1s, outcome) >>,
          no_match |-> FALSE]
    ELSE [calls |-> NameFallbackCalls(pkg, inventory, 1, files, third, sha1s, outcome),
          no_match |-> Len(NameFallbackCalls(pkg, inventory, 1, files, third, sha1s,
                                             outcome)) = 0]

\* lines 500-583 for one package and its hashes: the calls issued and
\* whether "no match" is reported.  no_match is cleared by a library that
\* matches by name, whether or not a hash is left to reassign.
RemapPackage(pkg, sha1s, search, outcome, inventory, files, third) ==
    IF HasKeyUuid(pkg)
    THEN [calls |-> << Call("key_uuid", pkg.key_uuid, sha1s, outcome) >>, no_match |-> FALSE]
    ELSE IF SearchGet(SelectSeq(search, IsSourceLibrary),
                      pkg.conandata_yml_download_url) # NoSearchHit
    THEN [calls |-> << Call("search",
                            SearchGet(SelectSeq(search, IsSourceLibrary),
                                      pkg.conandata_yml_download_url).keyUuid,
                            sha1s, outcome) >>,
          no_match |-> FALSE]
    ELSE [calls |-> NameFallbackCalls(pkg, inventory, 1, files, third, sha1s, outcome),
          no_match |-> ~\E i \in 1..Len(inventory) : NameMatches(pkg, inventory[i])]

\* One iteration of the loop over the regrouped packages.
remap_remaining_packages ==
    /\ pc = "remap_remaining_packages"
    /\ item_idx \in 1..Len(remaining)
    /\ \E search \in SearchResults, outcome \in CallOutcomes :
       \E r \in {RemapPackage(PackageByFullName(conan_dependencies,
                                                JsonLoads(remaining[item_idx].key)),
                              remaining[item_idx].sha_ones, search, outcome,
                              project_inventory, source_files, third_phase)} :
          /\ calls' = calls \o r.calls
          /\ no_match_log' = Append(no_match_log,
                                    [package |-> JsonLoads(remaining[item_idx].key),
                                     calls |-> r.calls,
                                     no_match |-> r.no_match])
    /\ IF item_idx < Len(remaining)
       THEN item_idx' = item_idx + 1 /\ UNCHANGED pc
       ELSE item_idx' = 1 /\ pc' = "finish"
    /\ UNCHANGED <<exit_status, conan_dependencies, source_files, project_inventory,
                   libraries_key_uuid_and_sf_sha1, second_phase, third_phase, remaining>>
    /\ UNCHANGED pipeline_vars
    /\ UNCHANGED extract_vars

Next ==
    \/ is_conan_installed
    \/ map_conan_profile_values
    \/ run_additional_commands
    \/ validate_project_manifest_file_exists
    \/ map_all_dependencies
    \/ run_conan_install_command
    \/ conan_cache_packages_source_folder_missing
    \/ get_dependencies_from_download_source
    \/ recovery_return
    \/ get_source_folders_list
    \/ csv_to_json
    \/ update_conandta_yml_download_url_from_ws_index
    \/ scan_with_unified_agent
    \/ get_last_scan_process_status
    \/ scan_return
    \/ finish

Spec == Init /\ [][Next]_vars

\* ---------------------------------------------------------------------------
\* The reattribution on its own: it starts from the states in which the
\* pipeline enters it, with every source folder in the cache, and with each
\* dependency as the index reconciliation leaves it for one of these
\* manifests and sync results.
EntryCases(version) ==
    { [doc |-> Absent, outcome |-> "keyUuid"],
      [doc |-> Manifest(version, Str("U_raw")), outcome |-> "keyUuid"],
      [doc |-> Manifest(version, Str("U_idx")), outcome |-> "keyUuid"],
      [doc |-> Manifest(version, Str("U_idx")), outcome |-> "no_keyUuid"],
      [doc |-> Manifest(version, List(<<Str("U_mirror"), Str("U_idx2")>>)),
       outcome |-> "keyUuid"] }

EntryProfile == [os_build |-> "Linux", arch_build |-> "x86_64"]

Reconciled(ref, case) ==
    ReconcilePackage([NewDependency(ref) EXCEPT !.conandata_yml = "export", !.counter = 0],
                     case.doc, case.outcome, EntryProfile)

\* The state in which main enters the reattribution with n dependencies.
EntryState(n, case) ==
       /\ pc = "change_project_source_file_inventory_match"
       /\ exit_status = "running"
       /\ config = [change_origin_library |-> TRUE]
       /\ conan_profile = EntryProfile
       /\ conan_info_exit = 0
       /\ conan_dependencies = [i \in 1..n |-> Reconciled(AllRefs[i], case[i]).package]
       /\ on_disk = [i \in 1..n |-> TRUE]
       /\ source_folders_missing = <<>>
       /\ item_idx = n + 1
       /\ packages_l = <<>>
       /\ recovery_log = <<>>
       /\ recovered = {}
       /\ dirs_to_scan = <<project_path>> \o [i \in 1..n |-> source_folder(AllRefs[i])]
       /\ sync_log = [i \in 1..n |-> Reconciled(AllRefs[i], case[i]).log]
       /\ scan_dirs = <<project_path>> \o [i \in 1..n |-> source_folder(AllRefs[i])]
       /\ status_log = <<>>
       /\ slept = 0
       /\ source_files = <<>>
       /\ project_inventory = <<>>
       /\ libraries_key_uuid_and_sf_sha1 = <<>>
       /\ second_phase = <<>>
       /\ third_phase = <<>>
       /\ remaining = <<>>
       /\ calls = <<>>
       /\ no_match_log = <<>>
       /\ captured_records = ConanIdentified
       /\ environ = WS_EXCLUDES(NotSet)
       /\ parsed_yaml_file = Unset
       /\ extracted_url = Unset

InitReattr ==
    \E n \in 1..MaxDeps :
    \E case \in [1..n -> UNION {EntryCases(AllRefs[i][3]) : i \in 1..n}] :
       /\ \A i \in 1..n : case[i] \in EntryCases(AllRefs[i][3])
       /\ EntryState(n, case)

NextReattr ==
    \/ change_project_source_file_inventory_match
    \/ get_project_source_files_inventory_to_remap
    \/ project_source_files_remap_first_phase
    \/ remap_third_phase_prepare
    \/ remap_remaining_packages
    \/ finish

SpecReattr == InitReattr /\ [][NextReattr]_vars

\* -------------------------------------------------------------------------
\* The scan stage by itself, entered with WS_EXCLUDES set by the user or not.
\* -------------------------------------------------------------------------
\* What the user may have put in WS_EXCLUDES: nothing, one pattern, or two
\* of which one is among the default exclusions.
UserExcludes ==
    { NotSet,
      [set |-> TRUE, patterns |-> <<"">>],
      [set |-> TRUE, patterns |-> <<"**/docs">>],
      [set |-> TRUE, patterns |-> <<"**/docs", "**/*conanfile.py">>] }

\* The state in which main calls scan_with_unified_agent, with n
\* dependencies whose source folders are in the cache.
DispatchEntry(n, case, conf, env) ==
       /\ pc = "scan_with_unified_agent"
       /\ exit_status = "running"
       /\ config = conf
       /\ conan_profile = EntryProfile
       /\ conan_info_exit = 0
       /\ conan_dependencies = [i \in 1..n |-> Reconciled(AllRefs[i], case[i]).package]
       /\ on_disk = [i \in 1..n |-> TRUE]
       /\ source_folders_missing = <<>>
       /\ item_idx = n + 1
       /\ packages_l = <<>>
       /\ recovery_log = <<>>
       /\ recovered = {}
       /\ dirs_to_scan = <<project_path>> \o [i \in 1..n |-> source_folder(AllRefs[i])]
       /\ sync_log = [i \in 1..n |-> Reconciled(AllRefs[i], case[i]).log]
       /\ scan_dirs = NotScanned
       /\ status_log = <<>>
       /\ slept = 0
       /\ source_files = <<>>
       /\ project_inventory = <<>>
       /\ libraries_key_uuid_and_sf_sha1 = <<>>
       /\ second_phase = <<>>
       /\ third_phase = <<>>
       /\ remaining = <<>>
       /\ calls = <<>>
       /\ no_match_log = <<>>
       /\ captured_records = ConanIdentified
       /\ environ = env
       /\ parsed_yaml_file = Unset
       /\ extracted_url = Unset

InitDispatch ==
    \E n \in 1..MaxDeps, conf \in [change_origin_library : BOOLEAN], env \in UserExcludes :
    \E case \in [1..n -> UNION {EntryCases(AllRefs[i][3]) : i \in 1..n}] :
       /\ \A i \in 1..n : case[i] \in EntryCases(AllRefs[i][3])
       /\ DispatchEntry(n, case, conf, env)

NextDispatch ==
    \/ scan_with_unified_agent
    \/ get_last_scan_process_status
    \/ scan_return
    \/ finish

SpecDispatch == InitDispatch /\ [][NextDispatch]_vars

\* -------------------------------------------------------------------------
\* extract_url_from_conan_data_yml by itself, on platform-keyed url maps.
\* -------------------------------------------------------------------------
MaxMirrors == 2     \* urls in a list of mirrors

OsBuildNames == {"Linux", "Windows"}
ArchBuildNames == {"x86_64", "armv8"}

\* The urls a manifest names, one for every key it is found under.
UrlUnder(key) ==
    Str([Linux |-> "U_linux", Windows |-> "U_windows",
         x86_64 |-> "U_x86_64", armv8 |-> "U_armv8"][key])
NestedUrlUnder(key) ==
    Str([x86_64 |-> "U_os_x86_64", armv8 |-> "U_os_armv8"][key])

\* A list of n urls whose last one is `last`.
Mirrors(n, last) == List([i \in 1..n |-> IF i = n THEN last ELSE Str("U_mirror")])

\* What a map can hold under a key: a url, a list of mirrors and, under an
\* os key, a map keyed by architecture; or nothing.
ValuesUnder(key) ==
    {Absent, UrlUnder(key)}
    \cup {Mirrors(n, UrlUnder(key)) : n \in 1..MaxMirrors}
    \cup (IF key \in OsBuildNames
          THEN {Dict(<< [k |-> a, v |-> NestedUrlUnder(a)] >>) : a \in ArchBuildNames}
          ELSE {})

Pair(key, value) == IF value = Absent THEN <<>> ELSE << [k |-> key, v |-> value] >>

PlatformMap(linux, windows, x86_64, armv8) ==
    Dict(Pair("Linux", linux) \o Pair("Windows", windows)
         \o Pair("x86_64", x86_64) \o Pair("armv8", armv8))

\* The function is called on a manifest whose url is a platform-keyed map,
\* under some profile.
InitExtract ==
    /\ pc = "extract_url_from_conan_data_yml"
    /\ exit_status = "running"
    /\ config = [change_origin_library |-> FALSE]
    /\ \E os_build \in OsBuildNames, arch_build \in ArchBuildNames :
          conan_profile = [os_build |-> os_build, arch_build |-> arch_build]
    /\ \E linux \in ValuesUnder("Linux"), windows \in ValuesUnder("Windows"),
          x86_64 \in ValuesUnder("x86_64"), armv8 \in ValuesUnder("armv8") :
          parsed_yaml_file = Manifest("1.2.11", PlatformMap(linux, windows, x86_64, armv8))
    /\ extracted_url = Unset
    /\ conan_info_exit = -1
    /\ conan_dependencies = <<>>
    /\ on_disk = <<>>
    /\ source_folders_missing = <<>>
    /\ item_idx = 0
    /\ packages_l = <<>>
    /\ recovery_log = <<>>
    /\ recovered = {}
    /\ dirs_to_scan = <<>>
    /\ sync_log = <<>>
    /\ scan_dirs = NotScanned
    /\ status_log = <<>>
    /\ slept = 0
    /\ source_files = <<>>
    /\ project_inventory = <<>>
    /\ libraries_key_uuid_and_sf_sha1 = <<>>
    /\ second_phase = <<>>
    /\ third_phase = <<>>
    /\ remaining = <<>>
    /\ calls = <<>>
    /\ no_match_log = <<>>
    /\ captured_records = <<>>
    /\ environ = NotSet

\* The call: the function returns its url, or leaves with an exception that
\* nothing catches.
extract_url_from_manifest ==
    /\ pc = "extract_url_from_conan_data_yml"
    /\ \E r \in {extract_url_from_conan_data_yml(parsed_yaml_file, conan_profile)} :
          /\ extracted_url' = r.value
          /\ IF r.raised # ""
             THEN Exit("uncaught")
             ELSE pc' = "returned" /\ UNCHANGED exit_status
    /\ UNCHANGED <<config, conan_profile, conan_info_exit, conan_dependencies, on_disk,
                   source_folders_missing, item_idx, packages_l, recovery_log,
                   recovered, dirs_to_scan, sync_log, scan_dirs, status_log, slept,
                   captured_records, environ, parsed_yaml_file>>
    /\ UNCHANGED reattr_vars

NextExtract == extract_url_from_manifest

SpecExtract == InitExtract /\ [][NextExtract]_vars

\* -------------------------------------------------------------------------
\* extract_url_from_conan_data_yml on manifests that list several versions.
\* -------------------------------------------------------------------------
MaxVersions == 3    \* versions a manifest lists

ListedVersions == {"1.2.11", "1.2.12", "1.2.13"}

\* The url a manifest names for a version.
VersionUrl(version) ==
    Str(CASE version = "1.2.11" -> "U_1.2.11"
          [] version = "1.2.12" -> "U_1.2.12"
          [] OTHER -> "U_1.2.13")

\* One entry of sources: the version over its url, given as a string or as
\* a list of n mirrors that ends with it.
VersionEntry(version, n) ==
    [k |-> version,
     v |-> Dict(<< [k |-> "url",
                    v |-> IF n = 0 THEN VersionUrl(version)
                          ELSE Mirrors(n, VersionUrl(version))] >>)]

\* The orders in which a manifest can list its versions.
VersionOrders ==
    { order \in UNION {[1..n -> ListedVersions] : n \in 1..MaxVersions} :
         \A i, j \in DOMAIN order : i # j => order[i] # order[j] }

\* The function is called for a dependency whose version is one of those
\* its manifest lists.
InitVersions ==
    /\ pc = "extract_url_from_conan_data_yml"
    /\ exit_status = "running"
    /\ config = [change_origin_library |-> FALSE]
    /\ \E os_build \in OsBuildNames, arch_build \in ArchBuildNames :
          conan_profile = [os_build |-> os_build, arch_build |-> arch_build]
    /\ \E order \in VersionOrders, mirrors \in [ListedVersions -> 0..MaxMirrors] :
          /\ parsed_yaml_file
                = Dict(<< [k |-> "sources",
                           v |-> Dict([i \in DOMAIN order |->
                                          VersionEntry(order[i], mirrors[order[i]])])] >>)
          /\ \E i \in DOMAIN order :
                conan_dependencies = << NewDependency(<<"zlib", "/", order[i]>>) >>
    /\ item_idx = 1
    /\ extracted_url = Unset
    /\ conan_info_exit = -1
    /\ on_disk = <<>>
    /\ source_folders_missing = <<>>
    /\ packages_l = <<>>
    /\ recovery_log = <<>>
    /\ recovered = {}
    /\ dirs_to_scan = <<>>
    /\ sync_log = <<>>
    /\ scan_dirs = NotScanned
    /\ status_log = <<>>
    /\ slept = 0
    /\ source_files = <<>>
    /\ project_inventory = <<>>
    /\ libraries_key_uuid_and_sf_sha1 = <<>>
    /\ second_phase = <<>>
    /\ third_phase = <<>>
    /\ remaining = <<>>
    /\ calls = <<>>
    /\ no_match_log = <<>>
    /\ captured_records = <<>>
    /\ environ = NotSet

SpecVersions == InitVersions /\ [][NextExtract]_vars


\* ================================================================== claims

\* C1: for every missing reference the recovery steps are attempted in the
\* order 1..5: the first step attempted is step 1, a step N > 1 is attempted
\* only right after step N-1 was attempted and its commands failed, and no
\* step follows one that succeeded.
C1_FallbackChainOrdered ==
    \A i \in 1..Len(recovery_log) :
        /\ Len(recovery_log[i].steps) > 0 => recovery_log[i].steps[1].step = 1
        /\ \A j \in 2..Len(recovery_log[i].steps) :
              /\ recovery_log[i].steps[j].step = recovery_log[i].steps[j - 1].step + 1
              /\ ~recovery_log[i].steps[j - 1].ok

\* A missing reference was recovered by step 1 and the chain ended there.
C1_Witness ==
    \E i \in 1..Len(recovery_log) :
        /\ recovery_log[i].done
        /\ Len(recovery_log[i].steps) = 1
        /\ recovery_log[i].steps[1].ok

\* C2: when a command of step 1 exits non-zero for a missing reference and
\* conandata.yml exists in its working directory, the direct download from
\* that manifest (step 2) is attempted.
C2_DownloadAfterFailedStep1 ==
    \A i \in 1..Len(recovery_log) :
        ( /\ recovery_log[i].done
          /\ recovery_log[i].recipe
          /\ (recovery_log[i].install_exit # 0 \/ recovery_log[i].source_exit # 0)
          /\ recovery_log[i].wd_manifest )
        => \E j \in 1..Len(recovery_log[i].steps) : recovery_log[i].steps[j].step = 2

\* C3: the working directory of every missing reference whose recovery
\* succeeded is an element of the directory list handed to the scan.
C3_RecoveredDirsScanned ==
    scan_dirs # NotScanned => \A dir \in recovered : InSeq(dir, scan_dirs)

\* C4: when the dependency-listing command exits non-zero the process has
\* exited with a non-zero status and the scan is never invoked.
C4_ListingFailureExits ==
    conan_info_exit > 0 =>
        /\ pc = "exited"
        /\ exit_status \in {"exit_1", "uncaught"}
        /\ scan_dirs = NotScanned

\* The poll loop ended normally on its third poll, the first two polls
\* having returned a status that is neither a success nor a failure.
ThirdPollFinished ==
    /\ pc = "scan_return"
    /\ Len(status_log) = 3
    /\ status_log[3] = "FINISHED"
    /\ \A k \in 1..2 : status_log[k] \notin {"UPDATED", "FINISHED", "UNKNOWN", "FAILED"}

\* C5 as stated: FINISHED on the third poll, and the dispatcher returns
\* after exactly three 20-second intervals.
C5_ThreeIntervals == ThirdPollFinished => slept = 60

\* C5 amended: FINISHED on the third poll, and the dispatcher returns after
\* exactly two 20-second sleeps, one after each of the first two polls.
C5_TwoIntervals == ThirdPollFinished => slept = 40

C5_Witness == ThirdPollFinished

\* C6: every iteration of the poll loop issues one poll; the loop ends
\* normally exactly when the poll returns UPDATED or FINISHED, the process
\* exits with status 1 exactly when it returns UNKNOWN or FAILED, and after
\* any other status the loop sleeps 20 seconds and polls again.
C6_PollLoop ==
    [][pc = "get_last_scan_process_status" =>
          /\ Len(status_log') = Len(status_log) + 1
          /\ (pc' = "scan_return") = (status_log'[Len(status_log')] \in {"UPDATED", "FINISHED"})
          /\ (pc' = "exited") = (status_log'[Len(status_log')] \in {"UNKNOWN", "FAILED"})
          /\ pc' = "exited" => exit_status' = "exit_1"
          /\ pc' = "scan_return" => slept' = slept
          /\ (pc' = "get_last_scan_process_status")
                = (status_log'[Len(status_log')] \notin {"UPDATED", "FINISHED", "UNKNOWN", "FAILED"})
          /\ pc' = "get_last_scan_process_status" => slept' = slept + 20]_vars

\* The loop polled again after a status that is none of the four, and then
\* ended normally.
C6_Witness ==
    /\ pc = "scan_return"
    /\ Len(status_log) >= 2
    /\ slept = 20 * (Len(status_log) - 1)

\* C10: a WsSdkServerGenericError of getSourceLibraryInfo is swallowed: the
\* run does not end abnormally at the dependency whose sync raised it.
C10_SyncErrorSwallowed ==
    \A i \in 1..Len(sync_log) :
        (sync_log[i].done /\ sync_log[i].outcome = "WsSdkServerGenericError")
        => ~(exit_status = "uncaught" /\ item_idx = i)

\* --------------------------------------------- claims on the reattribution
\* The dependencies whose package folder name or cache source path is in the
\* path of the file at position i.
MatchingDeps(i) ==
    {p \in 1..Len(conan_dependencies) : PathMatches(conan_dependencies[p], source_files[i])}

\* Phase 1 has handled dependency p and the regrouping for phase 3, which
\* overwrites download links, has not run.
PhaseOneHandled(p) ==
    \/ pc = "get_project_source_files_inventory_to_remap" /\ p < item_idx
    \/ pc \in {"project_source_files_remap_first_phase", "remap_third_phase_prepare"}

\* C7: a source file that path-matches a dependency and whose download link
\* equals that dependency's resolved url is marked accurate_match by phase 1
\* and is never queued for a reassignment call (never marked need_to_remap).
C7_AccurateNeverQueued ==
    \A i \in 1..Len(source_files) : \A p \in MatchingDeps(i) :
        ( /\ PhaseOneHandled(p)
          /\ source_files[i].download_link.t = "str"
          /\ source_files[i].download_link = conan_dependencies[p].conandata_yml_download_url )
        => /\ source_files[i].accurate_match
           /\ ~source_files[i].need_to_remap

\* C8 as stated: a source file whose path matches two or more dependencies is
\* never in the list phase 2 produces, and no phase-3 reassignment call
\* carries its hash.
C8_AmbiguousNeverCarried ==
    \A i \in 1..Len(source_files) :
        Cardinality(MatchingDeps(i)) >= 2 =>
            /\ ~InSeq(i, third_phase)
            /\ \A c \in 1..Len(calls) :
                  calls[c].phase = 3 => ~InSeq(source_files[i].sha1, calls[c].source_files_sha1)

\* C8 amended: a source file whose path matches two or more dependencies is
\* never in the list phase 2 produces, and a phase-3 reassignment call
\* carries its hash only when a file of the list has the same hash: every
\* hash of a phase-3 call is the hash of a file of the list.
C8_AmbiguousNeverKept ==
    /\ \A i \in 1..Len(source_files) :
          Cardinality(MatchingDeps(i)) >= 2 => ~InSeq(i, third_phase)
    /\ \A c \in 1..Len(calls) :
          calls[c].phase = 3 =>
             \A k \in 1..Len(calls[c].source_files_sha1) :
                \E j \in 1..Len(third_phase) :
                   source_files[third_phase[j]].sha1 = calls[c].source_files_sha1[k]

\* A file matching two dependencies reached phase 2, which dropped it, and a
\* phase-3 call was issued for another file.
C8_Witness ==
    /\ \E i \in 1..Len(source_files) :
          /\ Cardinality(MatchingDeps(i)) >= 2
          /\ InSeq(i, second_phase)
          /\ ~InSeq(i, third_phase)
    /\ \E c \in 1..Len(calls) : calls[c].phase = 3

\* C9: once the reassignment-execution step has started and is over, every
\* key_uuid under which phase 1 queued hashes has got exactly one
\* change_origin_of_source_lib call, and that call carries all the hashes
\* queued under it.
C9_OneCallPerKeyUuid ==
    ( /\ pc # "project_source_files_remap_first_phase"
      /\ \E c \in 1..Len(calls) : calls[c].phase = 1 )
    => \A q \in 1..Len(libraries_key_uuid_and_sf_sha1) :
          /\ Cardinality({c \in 1..Len(calls) :
                             /\ calls[c].phase = 1
                             /\ JsonDumps(<<calls[c].lib_uuid>>)
                                   = libraries_key_uuid_and_sf_sha1[q].key}) = 1
          /\ \A c \in 1..Len(calls) :
                ( /\ calls[c].phase = 1
                  /\ JsonDumps(<<calls[c].lib_uuid>>) = libraries_key_uuid_and_sf_sha1[q].key )
                => calls[c].source_files_sha1 = libraries_key_uuid_and_sf_sha1[q].sha_ones

\* C11: a backend error of the reassignment call for one key_uuid is
\* swallowed: the run does not end abnormally at that call (the calls for the
\* remaining key_uuids follow it).
C11_ReassignErrorSwallowed ==
    \A c \in 1..Len(calls) :
        (calls[c].phase = 1 /\ calls[c].outcome = "WsSdkServerGenericError")
        => ~(exit_status = "uncaught" /\ c = Len(calls))

\* C12: a failure while one missing reference is recovered never aborts the
\* run: every iteration of the recovery loop ends with the process still
\* running and the reference accounted for, goes on to the next missing
\* reference, and after the last one the function returns to main.
C12_RecoveryNeverAborts ==
    [][pc = "get_dependencies_from_download_source" =>
          /\ exit_status' = "running"
          /\ recovery_log'[item_idx].done
          /\ item_idx' = item_idx + 1
          /\ pc' = IF item_idx = Len(source_folders_missing)
                   THEN "recovery_return"
                   ELSE "get_dependencies_from_download_source"]_vars

\* The recovery of the first missing reference failed (a command exited
\* non-zero and no manifest was found, or the recipe was missing), the second
\* one was processed all the same and the function returned.
C12_Witness ==
    /\ pc = "recovery_return"
    /\ Len(recovery_log) >= 2
    /\ recovery_log[1].done
    /\ \/ ~recovery_log[1].recipe
       \/ /\ recovery_log[1].install_exit # 0
          /\ ~recovery_log[1].wd_manifest
          /\ ~recovery_log[1].exp_manifest
    /\ recovery_log[2].done

\* C13: a dependency whose resolved download url is null is never matched by
\* url: phase 1 counts no file as accurately matched against it, and the
\* url comparison of the phase-3 keyword search selects no library for it.
C13_NullUrlNeverMatched ==
    /\ \A p \in 1..Len(conan_dependencies) :
          conan_dependencies[p].conandata_yml_download_url = None
          => conan_dependencies[p].counter <= 0
    /\ \A e \in 1..Len(no_match_log) :
          PackageByFullName(conan_dependencies, no_match_log[e].package)
                .conandata_yml_download_url = None
          => \A c \in 1..Len(no_match_log[e].calls) :
                no_match_log[e].calls[c].branch # "search"

\* C14: a dependency whose cache source folder exists on disk is not in the
\* list of missing references and is never processed by the recovery: no
\* working directory is made for it and no manifest is located for it there.
C14_OnDiskNeverRecovered ==
    \A i \in 1..Len(on_disk) :
        on_disk[i] =>
            /\ ~InSeq(conan_dependencies[i].reference, source_folders_missing)
            /\ ~InSeq(package_directory(conan_dependencies[i].reference), packages_l)
            /\ package_directory(conan_dependencies[i].reference) \notin recovered
            /\ pc \in {"get_dependencies_from_download_source", "recovery_return"}
               => conan_dependencies[i].conandata_yml = "unset"

\* The recovery ran to its end for a missing reference while another
\* dependency had its source folder on disk.
C14_Witness ==
    /\ pc = "recovery_return"
    /\ \E i \in 1..Len(on_disk) : on_disk[i]
    /\ \E j \in 1..Len(on_disk) :
          /\ ~on_disk[j]
          /\ InSeq(conan_dependencies[j].reference, source_folders_missing)
    /\ Len(packages_l) > 0

\* The url map of the manifest the function was called on.
ManifestUrl == DictGet(DictGet(parsed_yaml_file, "sources").d[1].v, "url")

HasKey(u, key) == u.t = "dict" /\ \E i \in 1..Len(u.d) : u.d[i].k = key

\* The three steps of the precedence, each on the result of the one before.
ByOsBuild(u, profile) ==
    IF HasKey(u, profile.os_build) THEN DictGet(u, profile.os_build) ELSE u
ByArchBuild(u, profile) ==
    IF HasKey(u, profile.arch_build) THEN DictGet(u, profile.arch_build) ELSE u
LastOfList(u) == IF u.t = "list" THEN u.l[Len(u.l)] ELSE u

\* C15: of a platform-keyed url map extract_url_from_conan_data_yml returns
\* the value under the profile's os_build key if there is one, then, if the
\* result is still a map, the value under the profile's arch_build key if
\* there is one, then, if the result is a list, the list's last element.
C15_ExtractPrecedence ==
    pc = "returned" =>
        extracted_url
            = LastOfList(ByArchBuild(ByOsBuild(ManifestUrl, conan_profile), conan_profile))

\* The function returned for a map that has both the profile's os_build key
\* and its arch_build key, the former over a list of two mirrors: the url
\* returned is the last mirror of the os_build list.
C15_Witness ==
    /\ pc = "returned"
    /\ HasKey(ManifestUrl, conan_profile.os_build)
    /\ HasKey(ManifestUrl, conan_profile.arch_build)
    /\ DictGet(ManifestUrl, conan_profile.os_build).t = "list"
    /\ Len(DictGet(ManifestUrl, conan_profile.os_build).l) >= 2
    /\ extracted_url = UrlUnder(conan_profile.os_build)

\* update_conandta_yml_download_url_from_ws_index has returned: its loop went
\* through every dependency.
ReconcilerReturned ==
    /\ Len(conan_dependencies) > 0
    /\ Len(sync_log) = Len(conan_dependencies)
    /\ item_idx = Len(conan_dependencies) + 1
    /\ \A i \in 1..Len(sync_log) : sync_log[i].done

\* C16: after update_conandta_yml_download_url_from_ws_index, every
\* dependency with a manifest path has, when the url extracted from its
\* manifest is a key of the index, the index entry's canonical url, one sync
\* call issued and the handle that call returned as key_uuid; and otherwise
\* the extracted url unchanged, no sync call and no key_uuid.
C16_IndexReconciled ==
    ReconcilerReturned =>
        \A i \in 1..Len(conan_dependencies) :
            conan_dependencies[i].conandata_yml # "unset" =>
                IF IndexHit(sync_log[i].extracted)
                THEN /\ conan_dependencies[i].conandata_yml_download_url
                           = Str(IndexGet(sync_log[i].extracted).indexDownloadUrl)
                     /\ conan_dependencies[i].conandata_yml_download_url
                           # sync_log[i].extracted
                     /\ sync_log[i].calls = 1
                     /\ conan_dependencies[i].key_uuid
                           = (IF sync_log[i].outcome = "keyUuid"
                              THEN IndexGet(sync_log[i].extracted).keyUuid ELSE "None")
                ELSE /\ conan_dependencies[i].conandata_yml_download_url
                           = sync_log[i].extracted
                     /\ sync_log[i].calls = 0
                     /\ conan_dependencies[i].key_uuid = "unset"

\* The function returned with one dependency found in the index and another,
\* which has a manifest with a url, not found.
C16_Witness ==
    /\ ReconcilerReturned
    /\ \E i, j \in 1..Len(conan_dependencies) :
          /\ conan_dependencies[i].conandata_yml # "unset"
          /\ IndexHit(sync_log[i].extracted)
          /\ conan_dependencies[i].key_uuid \notin {"unset", "None"}
          /\ conan_dependencies[j].conandata_yml # "unset"
          /\ sync_log[j].extracted.t = "str"
          /\ ~IndexHit(sync_log[j].extracted)

\* C17: the exclusion list scan_with_unified_agent leaves in WS_EXCLUDES
\* holds the user's exclusions, when the user set any, and in every case the
\* fixed exclusions of conan_export.tgz, conan_package.tgz and conanfile.py.
C17_FixedExclusionsKept ==
    [][pc = "scan_with_unified_agent" =>
          /\ environ'.set
          /\ environ.set =>
                \A i \in 1..Len(environ.patterns) :
                    InSeq(environ.patterns[i], environ'.patterns)
          /\ \A fixed \in {"**/*conan_export.tgz", "**/*conan_package.tgz",
                           "**/*conanfile.py"} :
                InSeq(fixed, environ'.patterns)]_vars

\* The stage of main a position of the run belongs to: 1 Profile Resolver
\* (with the checks around it), 2 Dependency Mapper, 3 Source Recovery,
\* 4 Index Reconciler, 5 Scan Dispatcher, 6 Source Reattribution, 7 the end.
StageOf(p) ==
    CASE p \in {"is_conan_installed", "map_conan_profile_values",
                "run_additional_commands", "validate_project_manifest_file_exists"} -> 1
      [] p \in {"map_all_dependencies", "run_conan_install_command"} -> 2
      [] p \in {"conan_cache_packages_source_folder_missing",
                "get_dependencies_from_download_source", "recovery_return",
                "get_source_folders_list"} -> 3
      [] p \in {"csv_to_json", "update_conandta_yml_download_url_from_ws_index"} -> 4
      [] p \in {"scan_with_unified_agent", "get_last_scan_process_status",
                "scan_return"} -> 5
      [] p = "change_project_source_file_inventory_match" -> 6
      [] OTHER -> 7

\* No stage starts before its predecessor has finished.
StagesInOrder ==
    [][StageOf(pc') \in {StageOf(pc), StageOf(pc) + 1, 7}]_vars

\* The scan is invoked with the profile resolved and the dependencies listed
\* by a command that succeeded.
ScanAfterChecks ==
    pc = "scan_with_unified_agent" =>
        /\ exit_status = "running"
        /\ conan_profile # NoProfile
        /\ conan_info_exit = 0

\* The reattribution starts from the scan's return, with
\* change_origin_library set and the last poll a success status.
ReattributionGuarded ==
    [][(pc' = "change_project_source_file_inventory_match" /\ pc # pc') =>
          /\ pc = "scan_return"
          /\ config.change_origin_library
          /\ Len(status_log) > 0
          /\ status_log[Len(status_log)] \in {"UPDATED", "FINISHED"}]_vars

\* C18: the stages run in the order Profile Resolver, Dependency Mapper,
\* Source Recovery, Index Reconciler, Scan Dispatcher, Source Reattribution;
\* the scan is invoked only after every fatal precondition check passed; the
\* reattribution starts only with change_origin_library set and after a
\* poll that ended in a success status.
C18_StagesInOrder ==
    /\ StagesInOrder
    /\ []ScanAfterChecks
    /\ ReattributionGuarded

C20_NarrowingIdempotent ==
    /\ get_project_source_files_inventory_to_remap_third_phase(
          source_files,
          get_project_source_files_inventory_to_remap_third_phase(source_files, second_phase))
       = get_project_source_files_inventory_to_remap_third_phase(source_files, second_phase)
    /\ get_project_source_files_inventory_to_remap_third_phase(source_files, third_phase)
       = third_phase

\* The narrowing ran on a list from which it removed a file and kept another.
C20_Witness ==
    /\ pc = "remap_remaining_packages"
    /\ Len(third_phase) >= 1
    /\ Len(third_phase) < Len(second_phase)

\* The dependency at position p is the target of a reassignment call: of a
\* phase-1 call to its key_uuid or of a phase-3 call issued for it.
ReassignmentTarget(p) ==
    \/ \E c \in 1..Len(calls) :
          /\ calls[c].phase = 1
          /\ calls[c].lib_uuid = conan_dependencies[p].key_uuid
    \/ \E e \in 1..Len(no_match_log) :
          /\ no_match_log[e].package = conan_dependencies[p].package_full_name
          /\ Len(no_match_log[e].calls) > 0

\* A flag of a source file that is set stays set, and no counter goes down.
FlagsAndCountersKept ==
    /\ \A i \in 1..Len(source_files) :
          /\ i <= Len(source_files')
          /\ source_files[i].accurate_match => source_files'[i].accurate_match
          /\ source_files[i].need_to_remap => source_files'[i].need_to_remap
    /\ Len(conan_dependencies') = Len(conan_dependencies)
    /\ \A p \in 1..Len(conan_dependencies) :
          conan_dependencies'[p].counter >= conan_dependencies[p].counter

\* C21 as stated: no dependency is both accurate (counter > 0) and the
\* target of a reassignment call, and the accurate_match and need_to_remap
\* flags of a source file are never cleared once set.
C21_OneStatusPerDependency ==
    /\ [](\A p \in 1..Len(conan_dependencies) :
             ~(conan_dependencies[p].counter > 0 /\ ReassignmentTarget(p)))
    /\ [][FlagsAndCountersKept]_vars

\* C21 as the code has it: the accurate_match and need_to_remap flags of a
\* source file are never cleared once set and the counter of a dependency
\* never goes down; a dependency with one file attributed already and
\* another one not is both accurate and the target of a reassignment call.
C21_FlagsNeverCleared == [][FlagsAndCountersKept]_vars

\* A dependency has a file counted as accurate and another file reassigned
\* to its key_uuid, and both files keep their flags after the call.
C21_Witness ==
    /\ \E p \in 1..Len(conan_dependencies) :
          /\ conan_dependencies[p].counter > 0
          /\ ReassignmentTarget(p)
    /\ \E i, j \in 1..Len(source_files) :
          /\ source_files[i].accurate_match /\ ~source_files[i].need_to_remap
          /\ source_files[j].need_to_remap /\ ~source_files[j].accurate_match

\* The package of entry e of the phase-3 log went through the name fallback,
\* which found a source library of its name and version to which every one
\* of its hashes is mapped already, so that no call was issued.
AllAlreadyMapped(e) ==
    /\ e <= Len(remaining)
    /\ ~HasKeyUuid(PackageByFullName(conan_dependencies, no_match_log[e].package))
    /\ Len(no_match_log[e].calls) = 0
    /\ \E i \in 1..Len(project_inventory) :
          /\ NameMatches(PackageByFullName(conan_dependencies, no_match_log[e].package),
                         project_inventory[i])
          /\ \A k \in 1..Len(remaining[e].sha_ones) :
                ThirdPhaseBySha1(source_files, third_phase, remaining[e].sha_ones[k])
                      .source_lib_full_name = project_inventory[i].filename

WithoutCounter(package) == [package EXCEPT !.counter = 0]

\* The attributes the stages before the reattribution wrote.
EarlierAttributes(package) ==
    <<package.reference, package.source_folder, package.export_folder,
      package.conandata_yml, package.conandata_yml_download_url, package.key_uuid>>

\* C23 as stated: during the reattribution no attribute of a dependency
\* record other than its counter is added or changed.
C23_OnlyCounterChanges ==
    [][/\ Len(conan_dependencies') = Len(conan_dependencies)
       /\ \A p \in 1..Len(conan_dependencies) :
             WithoutCounter(conan_dependencies'[p]) = WithoutCounter(conan_dependencies[p])]_vars

\* C23 as the code has it: the reattribution adds package_full_name, name
\* and version to every record when it starts (lines 473-476) and from then
\* on changes the counter alone; the attributes written by the earlier
\* stages are never changed.
C23_NamesAddedThenCounterOnly ==
    [][/\ Len(conan_dependencies') = Len(conan_dependencies)
       /\ \A p \in 1..Len(conan_dependencies) :
             /\ EarlierAttributes(conan_dependencies'[p])
                   = EarlierAttributes(conan_dependencies[p])
             /\ pc # "change_project_source_file_inventory_match"
                => WithoutCounter(conan_dependencies'[p])
                      = WithoutCounter(conan_dependencies[p])]_vars

\* Phase 1 has counted a file for a dependency that has a key_uuid and got
\* its names at the start of the reattribution.
C23_Witness ==
    \E p \in 1..Len(conan_dependencies) :
        /\ conan_dependencies[p].counter > 0
        /\ conan_dependencies[p].package_full_name # <<>>
        /\ conan_dependencies[p].key_uuid \notin {"unset", "None"}

\* C24: execute_command never lets a command's failure out: for a command
\* that exits non-zero it returns None and raises nothing, so the
\* CalledProcessError handler of map_all_dependencies (sys.exit(1)) is never
\* entered and the recovery of a missing reference never goes past its
\* first step into the handler's fallback steps.
C24_HandlersUnreachable ==
    [][/\ \A exit_code \in {0, 1} :
             /\ execute_command(exit_code).raised = ""
             /\ exit_code # 0 => execute_command(exit_code).output = "None"
       /\ pc = "map_all_dependencies" => exit_status' # "exit_1"
       /\ pc = "get_dependencies_from_download_source"
          => \A j \in 1..Len(recovery_log'[item_idx].steps) :
                recovery_log'[item_idx].steps[j].step = 1]_vars

\* The listing command failed and the run went on; so did a conan install of
\* the recovery, whose iteration ended after its first step.
C24_Witness ==
    /\ pc = "recovery_return"
    /\ conan_info_exit = 1
    /\ \E i \in 1..Len(recovery_log) :
          /\ recovery_log[i].done
          /\ recovery_log[i].recipe
          /\ recovery_log[i].install_exit # 0
          /\ Len(recovery_log[i].steps) = 1

\* C25: in phase 1 a source file's hash is queued under at most one
\* key_uuid, so no two reassignment calls of phase 1 carry the same hash
\* with different target libraries.
C25_HashUnderOneKeyUuid ==
    /\ \A a, b \in 1..Len(libraries_key_uuid_and_sf_sha1) :
          a # b =>
             \A k \in 1..Len(libraries_key_uuid_and_sf_sha1[a].sha_ones) :
                ~InSeq(libraries_key_uuid_and_sf_sha1[a].sha_ones[k],
                       libraries_key_uuid_and_sf_sha1[b].sha_ones)
    /\ \A c, d \in 1..Len(calls) :
          (calls[c].phase = 1 /\ calls[d].phase = 1 /\ calls[c].lib_uuid # calls[d].lib_uuid)
          => \A k \in 1..Len(calls[c].source_files_sha1) :
                ~InSeq(calls[c].source_files_sha1[k], calls[d].source_files_sha1)

\* C26: every dependency under which files are regrouped for phase 3 has no
\* key_uuid, so phase 3 never reassigns files to a dependency's own key_uuid.
C26_RegroupedHaveNoKeyUuid ==
    /\ \A e \in 1..Len(remaining) :
          ~HasKeyUuid(PackageByFullName(conan_dependencies, JsonLoads(remaining[e].key)))
    /\ \A c \in 1..Len(calls) :
          ~(calls[c].phase = 3 /\ calls[c].branch = "key_uuid")

\* Phase 3 has issued a call for a regrouped package while another
\* dependency has a key_uuid and had a file queued under it in phase 1.
C26_Witness ==
    /\ \E c \in 1..Len(calls) : calls[c].phase = 3
    /\ \E c \in 1..Len(calls) : calls[c].phase = 1
    /\ \E i \in 1..Len(conan_dependencies) : HasKeyUuid(conan_dependencies[i])
    /\ Len(remaining) > 0

\* The version the manifest lists first, and the version of the dependency
\* the function was called for.
FirstListedVersion == DictGet(parsed_yaml_file, "sources").d[1].k
DependencyVersion == conan_dependencies[item_idx].reference[3]

\* C27: extract_url_from_conan_data_yml returns the url of the first entry
\* of the manifest's sources in document order, whatever the version of the
\* dependency: every version resolves to the first listed version's url.
C27_FirstListedVersionUrl ==
    pc = "returned" => extracted_url = VersionUrl(FirstListedVersion)

\* The function returned for a dependency whose version the manifest lists
\* but not first: the url returned is not the one listed for that version.
C27_Witness ==
    /\ pc = "returned"
    /\ Len(DictGet(parsed_yaml_file, "sources").d) >= 2
    /\ DependencyVersion # FirstListedVersion
    /\ extracted_url = VersionUrl(FirstListedVersion)
    /\ extracted_url # VersionUrl(DependencyVersion)

\* The url extract_url_from_conan_data_yml returned for dependency i is
\* still a platform-keyed map or a list: the manifest's map has neither the
\* profile's os_build key nor its arch_build key.
ExtractedUnresolved(i) ==
    /\ sync_log[i].done
    /\ sync_log[i].extracted.t \in {"dict", "list"}

====
